---------------------------- MODULE Spec2Model ----------------------------
(***************************************************************************)
(* FreeVinesStats: the timezone-aware bucketing and aggregation engine of  *)
(* utils/analytics (offset segments, boundary resolver, rolling stats,     *)
(* bucketed chart series, heat maps).                                      *)
(*                                                                         *)
(* Instants are integer milliseconds, as in the source.  TLC's integers    *)
(* are 32 bits wide, so an instant is counted from the Thursday 00:00 UTC  *)
(* that begins the week under study (ZoneOrigin).  The epoch itself is a   *)
(* Thursday 00:00 UTC and every divisor the code uses (15 min, 1 h, 1 d,   *)
(* 7 d) divides a week, so each floor division and each weekday of the     *)
(* code is shifted by a whole number of weeks and nothing else changes.    *)
(* One week of each regime of America/Los_Angeles is modelled: a week with *)
(* no transition (the epoch week itself, PST), the week of a               *)
(* spring-forward transition and the week of a fall-back transition.       *)
(***************************************************************************)
EXTENDS Integers, Sequences, FiniteSets

VARIABLES
    zone,        \* which week of America/Los_Angeles the instants lie in
    now,         \* Date.now()
    history,     \* HistoryItem[] handed to the engine
    updatedAtStr,\* updatedAtStr argument of processStats
    granularity, \* Granularity argument of processChartData
    filter,      \* DataFilter argument
    startTs,     \* arguments of buildOffsetSegments
    endTs,
    segments,    \* OffsetSegment[] returned by buildOffsetSegments
    indexRef,    \* the shared cursor { i } of getOffsetForTs
    query,       \* the last boundary-resolver call and what it returned
    stats,       \* DashboardStats returned by processStats
    legacy,      \* DashboardStats returned by processStatsLegacy
    chart,       \* ChartDataPointRaw[] returned by processChartData
    heat,        \* HeatMapData returned by processHeatMaps
    app          \* the state of the App component and of its polling loop

vars == <<zone, now, history, updatedAtStr, granularity, filter, startTs, endTs, segments,
          indexRef, query, stats, legacy, chart, heat, app>>

Null == "null"

---------------------------------------------------------------------------
(* Constants of utils/analytics.                                           *)

MINUTE_MS == 60 * 1000
HOUR_MS == 60 * MINUTE_MS
DAY_MS == 24 * HOUR_MS
WEEK_MS == 7 * DAY_MS

---------------------------------------------------------------------------
(* The timezone America/Los_Angeles as Intl resolves it.                   *)

Zones == {"winter", "spring", "fall"}

\* The instant 0 of each zone in epoch milliseconds / WEEK_MS:
\* 1970-01-01, 2024-03-07 and 2024-10-31, each a Thursday 00:00 UTC.
ZoneOrigin(z) == CASE z = "winter" -> 0 [] z = "spring" -> 2827 [] z = "fall" -> 2861

PST == -8 * HOUR_MS
PDT == -7 * HOUR_MS

\* The transition of the week: 2024-03-10T10:00Z (02:00 PST -> 03:00 PDT),
\* 2024-11-03T09:00Z (02:00 PDT -> 01:00 PST).  The week of January 1970 has
\* none; its anchor only places the instants the model draws.
Transition(z) == CASE z = "winter" -> 3 * DAY_MS + 10 * HOUR_MS
                   [] z = "spring" -> 3 * DAY_MS + 10 * HOUR_MS
                   [] z = "fall"   -> 3 * DAY_MS + 9 * HOUR_MS

HasTransition(z) == z # "winter"

\* The UTC offset of the zone's civil time at instant ts (civil = UTC + offset).
ZoneOffset(z, ts) ==
    CASE z = "winter" -> PST
      [] z = "spring" -> IF ts < Transition(z) THEN PST ELSE PDT
      [] z = "fall"   -> IF ts < Transition(z) THEN PDT ELSE PST

\* TZ_PARTS_FORMATTER.formatToParts(new Date(ts)): the civil fields of ts, to
\* the second (the formatter has no fractional-second field).  The calendar
\* date (year, month, day) is kept as the number of the civil day; hours are
\* read on the 00..23 clock.
formatToParts(ts) ==
    LET civil  == ts + ZoneOffset(zone, ts)
        second == civil \div 1000
    IN  [ date   |-> second \div 86400,
          hour   |-> (second % 86400) \div 3600,
          minute |-> (second % 3600) \div 60,
          second |-> second % 60 ]

\* Date.UTC(year, month - 1, day, hour, minute, second)
DateUTC(date, hour, minute, second) ==
    (((date * 24 + hour) * 60 + minute) * 60 + second) * 1000

getTimeZoneOffsetMs(ts) ==
    LET parts == formatToParts(ts)
        asUTC == DateUTC(parts.date, parts.hour, parts.minute, parts.second)
    IN  asUTC - ts

---------------------------------------------------------------------------
(* Offset segment builder.                                                 *)

\* The while loop of findOffsetTransition; yields <<lo, hi>> at its exit.
RECURSIVE findOffsetTransitionLoop(_, _, _)
findOffsetTransitionLoop(lo, hi, offset) ==
    IF hi - lo > MINUTE_MS
    THEN LET mid       == (lo + hi) \div 2
             midOffset == getTimeZoneOffsetMs(mid)
         IN  IF midOffset = offset
             THEN findOffsetTransitionLoop(mid, hi, offset)
             ELSE findOffsetTransitionLoop(lo, mid, offset)
    ELSE <<lo, hi>>

findOffsetTransition_returnsLo(start, end, offset) ==
    findOffsetTransitionLoop(start, end, offset)[1]

findOffsetTransition(start, end, offset) ==
    findOffsetTransitionLoop(start, end, offset)[2]

OffsetSegment(start, end, offset) == [start |-> start, end |-> end, offset |-> offset]

\* The while loop of buildOffsetSegments and the final push.
RECURSIVE buildOffsetSegmentsLoop(_, _, _, _, _)
buildOffsetSegmentsLoop(cursor, currentOffset, segmentStart, segs, end) ==
    IF cursor + DAY_MS <= end
    THEN LET next       == cursor + DAY_MS
             nextOffset == getTimeZoneOffsetMs(next)
         IN  IF nextOffset # currentOffset
             THEN LET transition == findOffsetTransition(cursor, next, currentOffset)
                  IN  buildOffsetSegmentsLoop(
                          next, nextOffset, transition,
                          Append(segs, OffsetSegment(segmentStart, transition, currentOffset)),
                          end)
             ELSE buildOffsetSegmentsLoop(next, currentOffset, segmentStart, segs, end)
    ELSE Append(segs, OffsetSegment(segmentStart, end + 1, currentOffset))

Min(x, y) == IF x <= y THEN x ELSE y
Max(x, y) == IF x >= y THEN x ELSE y

\* buildOffsetSegments taking its arguments in the order given.
buildOffsetSegments_asGiven(a, b) ==
    buildOffsetSegmentsLoop(a, getTimeZoneOffsetMs(a), a, <<>>, b)

buildOffsetSegments(a, b) ==
    LET start == Min(a, b)
        end   == Max(a, b)
    IN  buildOffsetSegmentsLoop(start, getTimeZoneOffsetMs(start), start, <<>>, end)

---------------------------------------------------------------------------
(* Boundary resolver.                                                      *)

\* The reverse scan of getOffsetAt from index i down.
RECURSIVE getOffsetAtFrom(_, _, _)
getOffsetAtFrom(ts, segs, i) ==
    IF i >= 1
    THEN IF ts >= segs[i].start THEN segs[i].offset ELSE getOffsetAtFrom(ts, segs, i - 1)
    ELSE IF Len(segs) >= 1 THEN segs[1].offset ELSE 0

getOffsetAt(ts, segs) == getOffsetAtFrom(ts, segs, Len(segs))

\* The cursor of getOffsetForTs after its while loop (1-based index).
RECURSIVE advanceIndex(_, _, _)
advanceIndex(ts, segs, i) ==
    IF i < Len(segs) /\ ts >= segs[i].end THEN advanceIndex(ts, segs, i + 1) ELSE i

\* getOffsetForTs without its while loop: the offset at the cursor as it is.
getOffsetForTs_cursorKept(ts, segs, i) == segs[i].offset

getOffsetForTs(ts, segs, i) == segs[advanceIndex(ts, segs, i)].offset

\* The forward scan of getUtcForLocal from index i up.
RECURSIVE getUtcForLocalFrom(_, _, _)
getUtcForLocalFrom(localTs, segs, i) ==
    IF i <= Len(segs)
    THEN LET candidate == localTs - segs[i].offset
         IN  IF candidate >= segs[i].start /\ candidate < segs[i].end
             THEN candidate
             ELSE getUtcForLocalFrom(localTs, segs, i + 1)
    ELSE localTs - (IF Len(segs) >= 1 THEN segs[1].offset ELSE 0)

getUtcForLocal_firstOffsetOnly(localTs, segs) ==
    localTs - (IF Len(segs) >= 1 THEN segs[1].offset ELSE 0)

getUtcForLocal(localTs, segs) == getUtcForLocalFrom(localTs, segs, 1)

---------------------------------------------------------------------------
(* Date getters on a local instant, counts of an event, median.            *)

\* new Date(localTs).getUTCDay(): 0 = Sunday; instant 0 is a Thursday.
getUTCDay(localTs) == ((localTs \div DAY_MS) + 4) % 7
getUTCHours(localTs) == (localTs % DAY_MS) \div HOUR_MS
getUTCMinutes(localTs) == (localTs % HOUR_MS) \div MINUTE_MS
getUTCSeconds(localTs) == (localTs % MINUTE_MS) \div 1000
getUTCMilliseconds(localTs) == localTs % 1000

getWeekStartLocal_sundayFirst(localTs) ==
    LET dayOfWeek == getUTCDay(localTs)
        dayIndex  == dayOfWeek
        hours     == getUTCHours(localTs)
        minutes   == getUTCMinutes(localTs)
        seconds   == getUTCSeconds(localTs)
        ms        == getUTCMilliseconds(localTs)
        dayStartLocal == localTs - (((hours * 60 + minutes) * 60 + seconds) * 1000 + ms)
    IN  dayStartLocal - dayIndex * DAY_MS

getWeekStartLocal(localTs) ==
    LET dayOfWeek == getUTCDay(localTs)
        dayIndex  == (dayOfWeek + 6) % 7
        hours     == getUTCHours(localTs)
        minutes   == getUTCMinutes(localTs)
        seconds   == getUTCSeconds(localTs)
        ms        == getUTCMilliseconds(localTs)
        dayStartLocal == localTs - (((hours * 60 + minutes) * 60 + seconds) * 1000 + ms)
    IN  dayStartLocal - dayIndex * DAY_MS

\* item.ai ?? item.encore ?? 0
getAiCount(item) ==
    IF "ai" \in DOMAIN item
    THEN item.ai
    ELSE IF "encore" \in DOMAIN item THEN item.encore ELSE 0

\* item.zero_etv ?? 0
getZeroEtvCount(item) == IF "zero_etv" \in DOMAIN item THEN item.zero_etv ELSE 0

\* values with its i-th element removed
RemoveAt(values, i) == [j \in 1..(Len(values) - 1) |-> IF j < i THEN values[j] ELSE values[j + 1]]

\* [...values].sort((a, b) => a - b)
RECURSIVE sortAscending(_)
sortAscending(values) ==
    IF values = <<>>
    THEN <<>>
    ELSE LET i == CHOOSE k \in 1..Len(values) : \A j \in 1..Len(values) : values[k] <= values[j]
         IN  <<values[i]>> \o sortAscending(RemoveAt(values, i))

\* calculateMedian, in halves: the value returned is twice the median, so
\* that the mean of the two central values stays an integer.
calculateMedian_upperCentral(values) ==
    IF Len(values) = 0
    THEN 0
    ELSE LET sorted == sortAscending(values)
             mid    == Len(sorted) \div 2
         IN  2 * sorted[mid + 1]

calculateMedian(values) ==
    IF Len(values) = 0
    THEN 0
    ELSE LET sorted == sortAscending(values)
             mid    == Len(sorted) \div 2
         IN  IF Len(sorted) % 2 # 0
             THEN 2 * sorted[mid + 1]
             ELSE sorted[mid] + sorted[mid + 1]

\* Math.round(n / d) for d > 0: to the nearest integer, a tie upwards.
MathRound(n, d) == (2 * n + d) \div (2 * d)

\* (record[key] || 0) + total, stored under key
AddTo(record, key, total) ==
    [k \in DOMAIN record \cup {key} |->
        IF k = key
        THEN (IF key \in DOMAIN record THEN record[key] ELSE 0) + total
        ELSE record[k]]

\* Object.values(record): the values, by ascending key.
RECURSIVE ObjectValues(_)
ObjectValues(record) ==
    IF DOMAIN record = {}
    THEN <<>>
    ELSE LET k == CHOOSE x \in DOMAIN record : \A y \in DOMAIN record : x <= y
         IN  <<record[k]>> \o ObjectValues([y \in DOMAIN record \ {k} |-> record[y]])

EmptyRecord == [k \in {} |-> 0]

---------------------------------------------------------------------------
(* Rolling stats aggregator.                                               *)

\* The binary exponent of halves / 2, for halves >= 1: the e with
\* 2^e <= halves / 2 < 2^(e + 1), searched upwards from e.
RECURSIVE exponentOfHalves(_, _)
exponentOfHalves(halves, e) ==
    IF halves < 2 ^ (e + 2) THEN e ELSE exponentOfHalves(halves, e + 1)

\* (a / m) * 100 in double precision when the exact value is the tie
\* halves / 2 with halves odd: whether the product comes out below the tie.
\* The quotient halves / 200 is rounded to 53 bits first; the part it loses
\* or gains is r / 25 of its last bit, r being halves * 2^(55 - e) modulo
\* 25 (2^20 is 1 modulo 25), and multiplying by 100 carries that error past
\* half of the last bit of the product when the quotient and the product
\* are six binary places apart and r is within 9..16: rounded down for r
\* up to 12, up for r from 13.  A negative quotient mirrors a positive one.
productBelowTie(halves) ==
    LET h == IF halves < 0 THEN -halves ELSE halves
        e == exponentOfHalves(h, -1)
        sixApart == 16 * h >= 25 * 2 ^ (e + 1)
        r == (h * ((2 ^ ((55 - e) % 20)) % 25)) % 25
    IN  /\ sixApart
        /\ IF halves > 0 THEN r \in 9..12 ELSE r \in 13..16

\* Math.round((a / m) * 100) for integers a and m > 0, in double precision:
\* off a tie the nearest integer of the exact value, on a tie the integer
\* the double product rounds to.
roundedPercent(a, m) ==
    IF (200 * a) % m = 0 /\ ((200 * a) \div m) % 2 = 1
    THEN LET halves == (200 * a) \div m
         IN  IF productBelowTie(halves)
             THEN (halves - 1) \div 2
             ELSE (halves + 1) \div 2
    ELSE MathRound(100 * a, m)

\* growth with 0 in place of 100 when there is no median to compare with.
growth_zeroWithoutMedian(current, median) ==
    IF median = 0
    THEN 0
    ELSE IF median > 0
         THEN roundedPercent(current - median, median)
         ELSE roundedPercent(median - current, -median)

\* Math.round(((current - median) / median) * 100), 100 for a zero median.
growth(current, median) ==
    IF median = 0
    THEN 100
    ELSE IF median > 0
         THEN roundedPercent(current - median, median)
         ELSE roundedPercent(median - current, -median)

\* The for loop of processStats over history[i..], with its accumulators.
RECURSIVE processStatsLoop(_, _, _, _)
processStatsLoop(items, i, acc, c) ==
    IF i > Len(items)
    THEN acc
    ELSE LET item   == items[i]
             t      == item.t
             total  == getAiCount(item) + item.last_chance
             idx    == advanceIndex(t, c.segments, acc.offsetIndex)
             offset == getOffsetForTs(t, c.segments, acc.offsetIndex)
             localTs == t + offset
             dayKey  == localTs \div DAY_MS
             weekStartLocal == getWeekStartLocal(localTs)
             weekKey == weekStartLocal \div WEEK_MS
         IN  processStatsLoop(items, i + 1,
                 [ lastHour |-> IF t > c.oneHourAgoTs THEN acc.lastHour + total ELSE acc.lastHour,
                   today    |-> IF t >= c.todayStartTs THEN acc.today + total ELSE acc.today,
                   thisWeek |-> IF t >= c.weekStartTs THEN acc.thisWeek + total ELSE acc.thisWeek,
                   dailyTotals  |-> IF dayKey < c.todayKey
                                    THEN AddTo(acc.dailyTotals, dayKey, total)
                                    ELSE acc.dailyTotals,
                   weeklyTotals |-> IF weekKey < c.currentWeekKey
                                    THEN AddTo(acc.weeklyTotals, weekKey, total)
                                    ELSE acc.weeklyTotals,
                   offsetIndex |-> idx ],
                 c)

\* The return statement of processStats: the medians, the growths and the
\* record of the results.  The record carries, besides the fields of
\* DashboardStats, the locals dailyTotals, weeklyTotals, todayStartTs and
\* weekStartTs.
processStatsReturn(acc, updatedAt, c, dailyMedian, weeklyMedian) ==
    [ fn |-> "processStats", lastHour |-> acc.lastHour, today |-> acc.today,
      todayGrowth |-> growth(acc.today, dailyMedian), todayMedian |-> dailyMedian,
      thisWeek |-> acc.thisWeek, weekGrowth |-> growth(acc.thisWeek, weeklyMedian),
      weekMedian |-> weeklyMedian, updatedAt |-> updatedAt,
      dailyTotals |-> acc.dailyTotals, weeklyTotals |-> acc.weeklyTotals,
      todayStartTs |-> c.todayStartTs, weekStartTs |-> c.weekStartTs ]

processStatsMedians(acc, updatedAt, c) ==
    processStatsReturn(acc, updatedAt, c,
        MathRound(calculateMedian(ObjectValues(acc.dailyTotals)), 2),
        MathRound(calculateMedian(ObjectValues(acc.weeklyTotals)), 2))

\* The keys and boundaries of today and of the current week.
processStatsBoundaries(nowTs, segs, todayKey, currentWeekStartLocal) ==
    [ segments |-> segs, oneHourAgoTs |-> nowTs - HOUR_MS,
      todayStartTs |-> getUtcForLocal(todayKey * DAY_MS, segs),
      weekStartTs |-> getUtcForLocal(currentWeekStartLocal, segs),
      todayKey |-> todayKey,
      currentWeekKey |-> currentWeekStartLocal \div WEEK_MS ]

\* The loop over the history, then the medians.
processStatsWith(items, updatedAt, c) ==
    processStatsMedians(
        processStatsLoop(items, 1,
            [ lastHour |-> 0, today |-> 0, thisWeek |-> 0,
              dailyTotals |-> EmptyRecord, weeklyTotals |-> EmptyRecord,
              offsetIndex |-> 1 ],
            c),
        updatedAt, c)

\* processStats from the keys and boundaries of today and of the current
\* week on: the loop over the history, then the medians.
processStatsFrom(items, updatedAt, nowTs, segs, todayKey, currentWeekStartLocal) ==
    processStatsWith(items, updatedAt,
        processStatsBoundaries(nowTs, segs, todayKey, currentWeekStartLocal))

\* processStats from localNow on.
processStatsAt(items, updatedAt, nowTs, segs, localNow) ==
    processStatsFrom(items, updatedAt, nowTs, segs,
                     localNow \div DAY_MS, getWeekStartLocal(localNow))

\* processStats from the segments on.
processStatsIn(items, updatedAt, nowTs, segs) ==
    processStatsAt(items, updatedAt, nowTs, segs, nowTs + getOffsetAt(nowTs, segs))

\* The values of updatedAtStr: a date, and a string that denotes none.
UpdatedAtStrs == {"2024-03-10T10:00:00.000Z", "updated recently"}

\* The null of a field of type Date | null.
NoDate == [date |-> Null]

\* new Date(updatedAtStr): the date the string denotes, or the Invalid Date
\* when it denotes none.
NewDate(str) ==
    IF str = "2024-03-10T10:00:00.000Z"
    THEN [date |-> "2024-03-10", time |-> "10:00:00.000"]
    ELSE [date |-> "Invalid Date"]

\* processStats whose early return for an empty history keeps the date of
\* updatedAtStr.
processStats_emptyKeepsDate(items, str, nowTs) ==
    IF Len(items) = 0
    THEN [ fn |-> "processStats", lastHour |-> 0, today |-> 0, todayGrowth |-> 0,
           todayMedian |-> 0, thisWeek |-> 0, weekGrowth |-> 0, weekMedian |-> 0,
           updatedAt |-> NewDate(str) ]
    ELSE processStatsIn(items, NewDate(str), nowTs,
             buildOffsetSegments(Min(items[1].t, nowTs) - WEEK_MS,
                                 Max(items[Len(items)].t, nowTs) + WEEK_MS))

\* processStats(history, updatedAtStr) called at Date.now() = nowTs.
processStats(items, str, nowTs) ==
    IF Len(items) = 0
    THEN [ fn |-> "processStats", lastHour |-> 0, today |-> 0, todayGrowth |-> 0,
           todayMedian |-> 0, thisWeek |-> 0, weekGrowth |-> 0, weekMedian |-> 0,
           updatedAt |-> NoDate ]
    ELSE processStatsIn(items, NewDate(str), nowTs,
             buildOffsetSegments(Min(items[1].t, nowTs) - WEEK_MS,
                                 Max(items[Len(items)].t, nowTs) + WEEK_MS))

---------------------------------------------------------------------------
(* Event bucketer.                                                         *)

Granularities == {"15m", "1h", "1d"}
DataFilters == {"all", "zeroEtv", "afa"}

\* aiToAdd reading the field ai only, without its legacy alias encore.
\* lastChanceToAdd kept whatever the filter.
lastChanceToAdd_unfiltered(item, f) == item.last_chance

aiToAdd_withoutEncore(item, f) ==
    IF f = "zeroEtv" \/ f = "afa" THEN 0
    ELSE IF "ai" \in DOMAIN item THEN item.ai ELSE 0

\* aiToAdd, lastChanceToAdd and zeroEtvToAdd of one item under a filter.
aiToAdd(item, f) == IF f = "zeroEtv" \/ f = "afa" THEN 0 ELSE getAiCount(item)
lastChanceToAdd(item, f) == IF f = "zeroEtv" THEN 0 ELSE item.last_chance
zeroEtvToAdd(item, f) == IF f = "afa" THEN 0 ELSE getZeroEtvCount(item)

ChartDataPointRaw(date, ai, lastChance, zeroEtv) ==
    [date |-> date, ai |-> ai, lastChance |-> lastChance, zeroEtv |-> zeroEtv,
     total |-> ai + lastChance]

\* dayKeyToStart with the offset of the first segment for every day.
dayKeyToStart_firstSegmentOffset(key, segs) == key * DAY_MS - segs[1].offset

\* bucketStart of local day key: the first segment that holds
\* localMidnight - segment.offset, else localMidnight - segments[0].offset.
dayKeyToStart(key, segs) == getUtcForLocalFrom(key * DAY_MS, segs, 1)

\* dayBucketLoop with the day key of the instant itself (the UTC day) in
\* place of the day key of the local reading.
RECURSIVE dayBucketLoop_utcDayKey(_, _, _, _, _)
dayBucketLoop_utcDayKey(items, segs, f, cursorKey, b) ==
    IF b.historyIndex <= Len(items)
    THEN LET item    == items[b.historyIndex]
             idx     == advanceIndex(item.t, segs, b.offsetIndex)
             itemKey == item.t \div DAY_MS
         IN  IF itemKey # cursorKey
             THEN [b EXCEPT !.offsetIndex = idx]
             ELSE dayBucketLoop_utcDayKey(items, segs, f, cursorKey,
                      [ ai |-> b.ai + aiToAdd(item, f),
                        lastChance |-> b.lastChance + lastChanceToAdd(item, f),
                        zeroEtv |-> b.zeroEtv + zeroEtvToAdd(item, f),
                        historyIndex |-> b.historyIndex + 1,
                        offsetIndex |-> idx ])
    ELSE b

\* The inner while loop of the 1d path: consumes the items whose day key is
\* cursorKey; yields the sums, historyIndex and offsetIndex at its exit.
RECURSIVE dayBucketLoop(_, _, _, _, _)
dayBucketLoop(items, segs, f, cursorKey, b) ==
    IF b.historyIndex <= Len(items)
    THEN LET item    == items[b.historyIndex]
             idx     == advanceIndex(item.t, segs, b.offsetIndex)
             offset  == getOffsetForTs(item.t, segs, b.offsetIndex)
             itemKey == (item.t + offset) \div DAY_MS
         IN  IF itemKey # cursorKey
             THEN [b EXCEPT !.offsetIndex = idx]
             ELSE dayBucketLoop(items, segs, f, cursorKey,
                      [ ai |-> b.ai + aiToAdd(item, f),
                        lastChance |-> b.lastChance + lastChanceToAdd(item, f),
                        zeroEtv |-> b.zeroEtv + zeroEtvToAdd(item, f),
                        historyIndex |-> b.historyIndex + 1,
                        offsetIndex |-> idx ])
    ELSE b

\* The outer while loop of the 1d path.
RECURSIVE dayLoop(_, _, _, _, _, _, _, _)
dayLoop(items, segs, f, cursorKey, endKey, historyIndex, offsetIndex, results) ==
    IF cursorKey <= endKey
    THEN LET b == dayBucketLoop(items, segs, f, cursorKey,
                      [ ai |-> 0, lastChance |-> 0, zeroEtv |-> 0,
                        historyIndex |-> historyIndex, offsetIndex |-> offsetIndex ])
         IN  dayLoop(items, segs, f, cursorKey + 1, endKey, b.historyIndex, b.offsetIndex,
                     Append(results,
                            ChartDataPointRaw(dayKeyToStart(cursorKey, segs),
                                              b.ai, b.lastChance, b.zeroEtv)))
    ELSE results

\* The inner while loop of the fixed-duration path.
RECURSIVE fixedBucketLoop(_, _, _, _, _)
fixedBucketLoop(items, f, cursor, bucketEnd, b) ==
    IF b.historyIndex <= Len(items) /\ items[b.historyIndex].t < bucketEnd
    THEN LET item == items[b.historyIndex]
         IN  fixedBucketLoop(items, f, cursor, bucketEnd,
                 IF item.t >= cursor
                 THEN [ ai |-> b.ai + aiToAdd(item, f),
                        lastChance |-> b.lastChance + lastChanceToAdd(item, f),
                        zeroEtv |-> b.zeroEtv + zeroEtvToAdd(item, f),
                        historyIndex |-> b.historyIndex + 1 ]
                 ELSE [b EXCEPT !.historyIndex = b.historyIndex + 1])
    ELSE b

\* fixedLoop that emits a bucket only when it consumed an event.
RECURSIVE fixedLoop_skipsEmpty(_, _, _, _, _, _, _)
fixedLoop_skipsEmpty(items, f, intervalMs, cursor, endBucket, historyIndex, results) ==
    IF cursor <= endBucket
    THEN LET b == fixedBucketLoop(items, f, cursor, cursor + intervalMs,
                      [ ai |-> 0, lastChance |-> 0, zeroEtv |-> 0,
                        historyIndex |-> historyIndex ])
         IN  fixedLoop_skipsEmpty(items, f, intervalMs, cursor + intervalMs, endBucket,
                 b.historyIndex,
                 IF b.historyIndex = historyIndex
                 THEN results
                 ELSE Append(results,
                             ChartDataPointRaw(cursor, b.ai, b.lastChance, b.zeroEtv)))
    ELSE results

\* The outer while loop of the fixed-duration path.
RECURSIVE fixedLoop(_, _, _, _, _, _, _)
fixedLoop(items, f, intervalMs, cursor, endBucket, historyIndex, results) ==
    IF cursor <= endBucket
    THEN LET b == fixedBucketLoop(items, f, cursor, cursor + intervalMs,
                      [ ai |-> 0, lastChance |-> 0, zeroEtv |-> 0,
                        historyIndex |-> historyIndex ])
         IN  fixedLoop(items, f, intervalMs, cursor + intervalMs, endBucket, b.historyIndex,
                       Append(results, ChartDataPointRaw(cursor, b.ai, b.lastChance, b.zeroEtv)))
    ELSE results

intervalMsOf(g) == IF g = "15m" THEN 15 * MINUTE_MS ELSE IF g = "1h" THEN HOUR_MS ELSE DAY_MS

\* What processChartData returns: the raw points, before formatChartPoints
\* attaches the labels.
Points(results) == [fn |-> "processChartData", points |-> results]

\* new Array(length): a negative length throws a RangeError, which leaves
\* processChartData uncaught.
RangeError == [fn |-> "processChartData", error |-> "RangeError: Invalid array length"]

\* processChartData(history, granularity, filter) called at Date.now() =
\* nowTs.
processChartData(items, g, f, nowTs) ==
    IF Len(items) = 0
    THEN Points(<<>>)
    ELSE LET endTime    == Max(nowTs, items[Len(items)].t)
             intervalMs == intervalMsOf(g)
         IN  IF g = "1d"
             THEN LET segs        == buildOffsetSegments(items[1].t - DAY_MS, endTime + DAY_MS)
                      startOffset == getOffsetAt(items[1].t, segs)
                      endOffset   == getOffsetAt(endTime, segs)
                      startKey    == (items[1].t + startOffset) \div DAY_MS
                      endKey      == (endTime + endOffset) \div DAY_MS
                  IN  IF endKey - startKey + 1 < 0
                      THEN RangeError
                      ELSE Points(dayLoop(items, segs, f, startKey, endKey, 1, 1, <<>>))
             ELSE LET cursor    == (items[1].t \div intervalMs) * intervalMs
                      endBucket == (endTime \div intervalMs) * intervalMs
                  IN  Points(fixedLoop(items, f, intervalMs, cursor, endBucket, 1, <<>>))

---------------------------------------------------------------------------
(* Heat map composer.  The hourly medians and means, which the code rounds *)
(* to one decimal, are kept in tenths.                                     *)

Days == 0..6
Hours == 0..23

\* A year does not fit into the integers of TLC next to the milliseconds, so
\* the clock of processHeatMaps is counted from ClockWeeks weeks after the
\* origin of the events: Date.now() is ClockWeeks * WEEK_MS + nowTs, and
\* the 365 days of the cutoff are ClockWeeks weeks and one day.
ClockWeeks == 52

\* cutoff = Date.now() - 365 * DAY_MS, counted from the origin of the events.
cutoffOf(nowTs) == nowTs - (365 - 7 * ClockWeeks) * DAY_MS

\* beforeCutoff with the cutoff exclusive on the wrong side: t < cutoff.
beforeCutoff_cutoffKept(item, nowTs) == item.t < cutoffOf(nowTs)

\* item.t <= cutoff: the event is skipped by both loops.
beforeCutoff(item, nowTs) == item.t <= cutoffOf(nowTs)

\* The items that pass the cutoff test, in the order of the history.
surviving(items, nowTs) == SelectSeq(items, LAMBDA item : ~beforeCutoff(item, nowTs))

\* minTs and maxTs after the first loop.  maxTs starts from 0, the epoch,
\* which lies below every instant of a week whose origin is after the epoch.
minTsOf(items) ==
    CHOOSE t \in { items[i].t : i \in 1..Len(items) } :
        \A i \in 1..Len(items) : t <= items[i].t

maxTsOf(items) ==
    LET m == CHOOSE t \in { items[i].t : i \in 1..Len(items) } :
                 \A i \in 1..Len(items) : t >= items[i].t
    IN  IF ZoneOrigin(zone) = 0 THEN Max(0, m) ELSE m

getWeekKey(localTs) ==
    LET dayOfWeek == getUTCDay(localTs)
        dayIndex  == (dayOfWeek + 6) % 7
        hours     == getUTCHours(localTs)
        minutes   == getUTCMinutes(localTs)
        seconds   == getUTCSeconds(localTs)
        ms        == getUTCMilliseconds(localTs)
        dayStartLocal  == localTs - (((hours * 60 + minutes) * 60 + seconds) * 1000 + ms)
        weekStartLocal == dayStartLocal - dayIndex * DAY_MS
    IN  weekStartLocal \div WEEK_MS

\* total of one item under a filter.
heatTotal(item, f) ==
    IF f = "all" THEN getAiCount(item) + item.last_chance
    ELSE IF f = "zeroEtv" THEN getZeroEtvCount(item)
    ELSE IF f = "afa" THEN item.last_chance
    ELSE 0

\* Array(7).fill(0).map(() => Array(24).fill(0))
ZeroMatrix == [d \in Days |-> [h \in Hours |-> 0]]

\* Math.max(...values), with least only when there is no value.
MathMax_unfloored(values, least) ==
    IF values = {} THEN least ELSE CHOOSE m \in values : \A x \in values : x <= m

\* Math.max(...values, least)
MathMax(values, least) ==
    CHOOSE m \in values \cup {least} : \A x \in values \cup {least} : x <= m

\* matrix.flat(), as the set of its entries.
flat(matrix) == { matrix[d][h] : d \in Days, h \in Hours }

\* The second loop of processHeatMaps over history[i..], with weeklyMap,
\* hourlySum, hourlyWeekSums and offsetIndex in acc.
RECURSIVE heatLoop(_, _, _, _, _, _, _, _)
heatLoop(items, i, segs, f, nowTs, minWeekKey, weekCount, acc) ==
    IF i > Len(items)
    THEN acc
    ELSE LET item == items[i]
         IN  IF beforeCutoff(item, nowTs)
             THEN heatLoop(items, i + 1, segs, f, nowTs, minWeekKey, weekCount, acc)
             ELSE LET idx       == advanceIndex(item.t, segs, acc.offsetIndex)
                      offset    == getOffsetForTs(item.t, segs, acc.offsetIndex)
                      localTs   == item.t + offset
                      dayOfWeek == getUTCDay(localTs)
                      dayIndex  == (dayOfWeek + 6) % 7
                      hour      == getUTCHours(localTs)
                      total     == heatTotal(item, f)
                      dateKey   == localTs \div DAY_MS
                      weekKey   == getWeekKey(localTs)
                      weekIndex == weekKey - minWeekKey
                  IN  heatLoop(items, i + 1, segs, f, nowTs, minWeekKey, weekCount,
                          [ weeklyMap |-> AddTo(acc.weeklyMap, dateKey, total),
                            hourlySum |->
                                [acc.hourlySum EXCEPT ![dayIndex][hour] = @ + total],
                            hourlyWeekSums |->
                                IF weekIndex >= 0 /\ weekIndex < weekCount
                                THEN [acc.hourlyWeekSums EXCEPT
                                         ![dayIndex][hour][weekIndex + 1] = @ + total]
                                ELSE acc.hourlyWeekSums,
                            offsetIndex |-> idx ])

\* The return statement of processHeatMaps.  The record carries, besides
\* the fields of HeatMapData, the locals weekCount, hourlyWeekSums and
\* hourlySum.
processHeatMapsReturn(acc, weekCount, hourlyMedianMatrix, hourlyMeanMatrix) ==
    [ fn |-> "processHeatMaps", weekly |-> acc.weeklyMap,
      hourlyMedian |-> hourlyMedianMatrix, hourlyMean |-> hourlyMeanMatrix,
      maxDaily |-> MathMax({ acc.weeklyMap[k] : k \in DOMAIN acc.weeklyMap }, 1),
      maxHourlyMedian |-> MathMax(flat(hourlyMedianMatrix), 10),
      maxHourlyMean |-> MathMax(flat(hourlyMeanMatrix), 10),
      weekCount |-> weekCount, hourlyWeekSums |-> acc.hourlyWeekSums,
      hourlySum |-> acc.hourlySum ]

\* The loop over the cells: the median and the mean of each.
processHeatMapsCells(acc, weekCount) ==
    processHeatMapsReturn(acc, weekCount,
        [d \in Days |-> [h \in Hours |-> 5 * calculateMedian(acc.hourlyWeekSums[d][h])]],
        [d \in Days |-> [h \in Hours |-> MathRound(10 * acc.hourlySum[d][h], weekCount)]])

\* processHeatMaps from minWeekKey and weekCount on.
processHeatMapsFrom(items, f, nowTs, segs, minWeekKey, weekCount) ==
    processHeatMapsCells(
        heatLoop(items, 1, segs, f, nowTs, minWeekKey, weekCount,
            [ weeklyMap |-> EmptyRecord,
              hourlySum |-> ZeroMatrix,
              hourlyWeekSums |->
                  [d \in Days |-> [h \in Hours |-> [w \in 1..weekCount |-> 0]]],
              offsetIndex |-> 1 ]),
        weekCount)

\* As processHeatMapsWeeks, but with the samples of a single week whatever
\* the span of the events.
processHeatMapsWeeks_singleWeek(items, f, nowTs, segs, minWeekKey, maxWeekKey) ==
    processHeatMapsFrom(items, f, nowTs, segs, minWeekKey, 1)

\* processHeatMaps from minWeekKey and maxWeekKey on.
processHeatMapsWeeks(items, f, nowTs, segs, minWeekKey, maxWeekKey) ==
    processHeatMapsFrom(items, f, nowTs, segs, minWeekKey,
                        Max(maxWeekKey - minWeekKey + 1, 1))

\* processHeatMaps from the segments on.
processHeatMapsIn(items, f, nowTs, minTs, maxTs, segs) ==
    processHeatMapsWeeks(items, f, nowTs, segs,
                         getWeekKey(minTs + getOffsetAt(minTs, segs)),
                         getWeekKey(maxTs + getOffsetAt(maxTs, segs)))

\* processHeatMaps from minTs and maxTs on.
processHeatMapsRange(items, f, nowTs, minTs, maxTs) ==
    processHeatMapsIn(items, f, nowTs, minTs, maxTs,
                      buildOffsetSegments(minTs - DAY_MS, maxTs + DAY_MS))

\* processHeatMaps(history, filter) called at Date.now() = nowTs.
processHeatMaps(items, f, nowTs) ==
    IF surviving(items, nowTs) = <<>>
    THEN [ fn |-> "processHeatMaps", weekly |-> EmptyRecord,
           hourlyMedian |-> ZeroMatrix, hourlyMean |-> ZeroMatrix,
           maxDaily |-> 1, maxHourlyMedian |-> 10, maxHourlyMean |-> 10 ]
    ELSE processHeatMapsRange(items, f, nowTs,
                              minTsOf(surviving(items, nowTs)),
                              maxTsOf(surviving(items, nowTs)))

---------------------------------------------------------------------------
(* processStatsLegacy of the benchmark test: the same statistics computed  *)
(* with dayjs in the timezone, event by event.                             *)

\* dayjs(t).tz(TIMEZONE): the civil reading of t, as a local instant.
tz(t) == t + ZoneOffset(zone, t)

\* .format('YYYY-MM-DD'): the civil date, kept as the number of the civil day.
formatDate(localTs) == localTs \div DAY_MS

\* .valueOf() of a civil midnight: the instant at which the zone's clock
\* shows 00:00 of civil day dayKey.
valueOfMidnight(dayKey) ==
    CHOOSE m \in { dayKey * DAY_MS - PST, dayKey * DAY_MS - PDT } : tz(m) = dayKey * DAY_MS

\* .startOf('day') and .startOf('isoWeek') of a civil reading, as civil days.
startOfDay(localTs) == localTs \div DAY_MS
startOfIsoWeek(localTs) == (localTs \div DAY_MS) - ((getUTCDay(localTs) + 6) % 7)

\* _.sumBy(items, h => getAiCount(h) + h.last_chance)
RECURSIVE sumBy(_)
sumBy(items) ==
    IF items = <<>>
    THEN 0
    ELSE getAiCount(Head(items)) + Head(items).last_chance + sumBy(Tail(items))

\* The items of one group of _.groupBy: those items[i] with keyOf[i] = k.
RECURSIVE groupOf(_, _, _)
groupOf(items, keyOf, k) ==
    IF items = <<>>
    THEN <<>>
    ELSE (IF Head(keyOf) = k THEN <<Head(items)>> ELSE <<>>)
             \o groupOf(Tail(items), Tail(keyOf), k)

\* Object.values(_.groupBy(items, key)).map(sumBy): the total of each group,
\* keyOf[i] being the group key of items[i].
GroupTotals(items, keyOf) ==
    LET keys == { keyOf[i] : i \in 1..Len(items) }
    IN  ObjectValues([k \in keys |-> sumBy(groupOf(items, keyOf, k))])

processStatsLegacy(items, str, nowTs) ==
    IF Len(items) = 0
    THEN [ fn |-> "processStatsLegacy", lastHour |-> 0, today |-> 0, todayGrowth |-> 0,
           todayMedian |-> 0, thisWeek |-> 0, weekGrowth |-> 0, weekMedian |-> 0,
           updatedAt |-> NoDate ]
    ELSE LET nowPst       == tz(nowTs)
             oneHourAgo   == nowTs - HOUR_MS
             lastHourTotal == sumBy(SelectSeq(items, LAMBDA h : h.t > oneHourAgo))
             todayStart   == valueOfMidnight(startOfDay(nowPst))
             todayTotal   == sumBy(SelectSeq(items, LAMBDA h : h.t >= todayStart))
             beforeToday  == SelectSeq(items, LAMBDA h : h.t < todayStart)
             dailyTotals  == GroupTotals(beforeToday,
                                 [i \in 1..Len(beforeToday) |-> formatDate(tz(beforeToday[i].t))])
             dailyMedian  == MathRound(calculateMedian(dailyTotals), 2)
             todayGrowth  == growth(todayTotal, dailyMedian)
             weekStart    == valueOfMidnight(startOfIsoWeek(nowPst))
             thisWeekTotal == sumBy(SelectSeq(items, LAMBDA h : h.t >= weekStart))
             beforeWeek   == SelectSeq(items, LAMBDA h : h.t < weekStart)
             weeklyTotals == GroupTotals(beforeWeek,
                                 [i \in 1..Len(beforeWeek) |-> startOfIsoWeek(tz(beforeWeek[i].t))])
             weeklyMedian == MathRound(calculateMedian(weeklyTotals), 2)
             weekGrowth   == growth(thisWeekTotal, weeklyMedian)
         IN  [ fn |-> "processStatsLegacy", lastHour |-> lastHourTotal, today |-> todayTotal,
               todayGrowth |-> todayGrowth, todayMedian |-> dailyMedian,
               thisWeek |-> thisWeekTotal, weekGrowth |-> weekGrowth,
               weekMedian |-> weeklyMedian, updatedAt |-> NewDate(str) ]

---------------------------------------------------------------------------
(* Calls of the segment builder and of the boundary resolver.              *)

NoQuery == [fn |-> Null, ts |-> 0, result |-> 0]
NoStats == [fn |-> Null]

\* No App component has been constructed.
NoApp == [fn |-> Null]

\* Range starts and lengths, placed around the zone's transition: ranges
\* that end before it, contain it in a sampled day, contain it in the last,
\* shorter-than-a-day part, and start after it; with and without a
\* sub-second part.
SegStarts(z) ==
    { Transition(z) + d : d \in { -(2 * DAY_MS) - 3 * HOUR_MS, -DAY_MS,
                                  -(12 * HOUR_MS) + 123, -(2 * HOUR_MS),
                                  -(30 * 1000), 5 * MINUTE_MS } }

SegLengths == { 0, HOUR_MS, 23 * HOUR_MS, DAY_MS, 36 * HOUR_MS, 3 * DAY_MS + 7 }

\* Instants asked of a built segment list.
QueryInstants(z) ==
    { Transition(z) + d : d \in { -HOUR_MS, -(11 * MINUTE_MS), -1, 0, 1, 30 * 1000,
                                  MINUTE_MS - 1, MINUTE_MS, 30 * MINUTE_MS,
                                  HOUR_MS - 1, HOUR_MS, 2 * HOUR_MS } }

InRange(ts) == Min(startTs, endTs) <= ts /\ ts <= Max(startTs, endTs)

IdleEngine ==
    /\ updatedAtStr = Null
    /\ now = 0
    /\ history = <<>>
    /\ granularity = Null
    /\ filter = Null
    /\ stats = NoStats
    /\ legacy = NoStats
    /\ chart = <<>>
    /\ heat = NoStats

InitSeg ==
    /\ zone \in Zones
    /\ \E p \in SegStarts(zone), d \in SegLengths :
          \/ startTs = p /\ endTs = p + d
          \/ startTs = p + d /\ endTs = p
    /\ segments = <<>>
    /\ indexRef = 1
    /\ query = NoQuery
    /\ app = NoApp
    /\ IdleEngine

BuildOffsetSegments ==
    /\ segments = <<>>
    /\ segments' = buildOffsetSegments(startTs, endTs)
    /\ indexRef' = 1
    /\ UNCHANGED <<app, zone, now, history, updatedAtStr, granularity, filter, startTs, endTs,
                   query, stats, legacy, chart, heat>>

GetOffsetAt ==
    /\ segments # <<>>
    /\ \E ts \in QueryInstants(zone) \cup {startTs, endTs} :
          /\ InRange(ts)
          /\ query' = [fn |-> "getOffsetAt", ts |-> ts, result |-> getOffsetAt(ts, segments)]
    /\ UNCHANGED <<app, zone, now, history, updatedAtStr, granularity, filter, startTs, endTs,
                   segments, indexRef, stats, legacy, chart, heat>>

\* getUtcForLocal(ts + getOffsetAt(ts, segments), segments)
GetUtcForLocal ==
    /\ segments # <<>>
    /\ \E ts \in QueryInstants(zone) \cup {startTs, endTs} :
          /\ InRange(ts)
          /\ query' = [fn |-> "getUtcForLocal", ts |-> ts,
                       result |-> getUtcForLocal(ts + getOffsetAt(ts, segments), segments)]
    /\ UNCHANGED <<app, zone, now, history, updatedAtStr, granularity, filter, startTs, endTs,
                   segments, indexRef, stats, legacy, chart, heat>>

NextSeg == BuildOffsetSegments \/ GetOffsetAt \/ GetUtcForLocal

SpecSeg == InitSeg /\ [][NextSeg]_vars

---------------------------------------------------------------------------
(* Claims about the segment builder and the boundary resolver (SpecSeg).   *)

Built == segments # <<>>

\* The segments that hold instant ts in their half-open interval.
SegmentsHolding(ts) ==
    { i \in 1..Len(segments) : segments[i].start <= ts /\ ts < segments[i].end }

\* C1: for a <= b, buildOffsetSegments(a, b) is a non-empty list, ordered and
\* contiguous (segments[i].end = segments[i+1].start, start < end in each),
\* that starts at a and ends at b + 1, so that every instant of [a, b] lies
\* in exactly one segment.
C1_SegmentsPartitionRange ==
    (Built /\ startTs <= endTs) =>
        /\ Len(segments) >= 1
        /\ segments[1].start = startTs
        /\ segments[Len(segments)].end = endTs + 1
        /\ \A i \in 1..Len(segments) : segments[i].start < segments[i].end
        /\ \A i \in 1..(Len(segments) - 1) : segments[i].end = segments[i + 1].start
        /\ \A ts \in QueryInstants(zone) \cup {startTs, endTs} :
              InRange(ts) => Cardinality(SegmentsHolding(ts)) = 1

C1_Witness ==
    /\ Built
    /\ startTs <= endTs
    /\ Len(segments) = 2
    /\ segments[1].end = segments[2].start

\* C5 (as claimed): for every instant ts of the built range [a, b],
\* getOffsetAt(ts, segments) equals getTimeZoneOffsetMs(ts).
C5_OffsetAtMatchesZone ==
    (query.fn = "getOffsetAt" /\ startTs <= endTs) =>
        query.result = getTimeZoneOffsetMs(query.ts)

\* The instants of [a, b] at which the zone's offset changes.
TransitionsInRange ==
    IF HasTransition(zone) /\ startTs < Transition(zone) /\ Transition(zone) <= endTs
    THEN {Transition(zone)}
    ELSE {}

\* C7 (as claimed): for a range that spans exactly one DST transition,
\* buildOffsetSegments returns exactly two segments whose common boundary is
\* at or after the true transition and less than 60 seconds after it.
C7_TwoSegmentsAtTransition ==
    (Built /\ startTs <= endTs /\ TransitionsInRange # {}) =>
        /\ Len(segments) = 2
        /\ segments[1].end = segments[2].start
        /\ segments[1].end >= Transition(zone)
        /\ segments[1].end - Transition(zone) < 60 * 1000

C7_Witness ==
    /\ Built
    /\ startTs <= endTs
    /\ TransitionsInRange # {}
    /\ Len(segments) = 1

\* ts is more than one minute away from the zone's transition and from every
\* boundary between two segments.
AwayFromTransitions(ts) ==
    /\ HasTransition(zone) =>
          (ts - Transition(zone) > MINUTE_MS \/ Transition(zone) - ts > MINUTE_MS)
    /\ \A i \in 2..Len(segments) :
          (ts - segments[i].start > MINUTE_MS \/ segments[i].start - ts > MINUTE_MS)

\* C6 (as claimed): for every instant ts of the built range that is not
\* within one minute of a DST transition,
\* getUtcForLocal(ts + getOffsetAt(ts, segments), segments) = ts.
C6_RoundTripAsClaimed ==
    (query.fn = "getUtcForLocal" /\ AwayFromTransitions(query.ts)) =>
        query.result = query.ts

\* The instant of the preceding segment that shows the same local reading
\* as ts, an instant of segment i.
EarlierReading(ts, i) == ts + segments[i].offset - segments[i - 1].offset

\* ts lies in a segment that follows a fall-back boundary and its local
\* reading was already shown by an instant of the preceding segment.
InRepeatedHour(ts) ==
    \E i \in SegmentsHolding(ts) :
        /\ i > 1
        /\ segments[i - 1].start <= EarlierReading(ts, i)
        /\ EarlierReading(ts, i) < segments[i - 1].end

\* C6 (amended): for every instant ts of the built range that is not within
\* one minute of a DST transition, the round trip returns ts, unless ts lies
\* in the repeated local hour after a fall-back boundary; there it returns
\* the earlier instant with the same local reading, one offset step before.
C6_RoundTripOutsideRepeatedHour ==
    (query.fn = "getUtcForLocal" /\ AwayFromTransitions(query.ts)) =>
        IF InRepeatedHour(query.ts)
        THEN \E i \in SegmentsHolding(query.ts) :
                 /\ i > 1
                 /\ query.result = EarlierReading(query.ts, i)
                 /\ query.result = query.ts - HOUR_MS
        ELSE query.result = query.ts

C6_Witness ==
    /\ query.fn = "getUtcForLocal"
    /\ Len(segments) = 2
    /\ zone = "spring"
    /\ query.ts = Transition(zone) + HOUR_MS
    /\ AwayFromTransitions(query.ts)
    /\ query.result = query.ts

\* C18 (as claimed): for a zero-length range (startTs = endTs) or an
\* inverted one (startTs > endTs), buildOffsetSegments returns exactly one
\* segment.
C18_OneSegmentWhenNotAscending ==
    (Built /\ startTs >= endTs) => Len(segments) = 1

\* C18 (amended): for a zero-length range buildOffsetSegments returns
\* exactly one segment, [startTs, startTs + 1); for an inverted range it
\* returns the segments of the range taken in ascending order, from endTs to
\* startTs + 1, which are two when an offset change is found in between.
C18_InvertedRangeIsReordered ==
    (Built /\ startTs >= endTs) =>
        /\ segments = buildOffsetSegments(endTs, startTs)
        /\ segments[1].start = endTs
        /\ segments[Len(segments)].end = startTs + 1
        /\ startTs = endTs => Len(segments) = 1

C18_Witness ==
    /\ Built
    /\ startTs > endTs
    /\ Len(segments) = 2
    /\ segments[1].start = endTs
    /\ segments[2].end = startTs + 1

---------------------------------------------------------------------------
(* Calls of processStats and of processStatsLegacy on one history at one   *)
(* reading of the clock.                                                   *)

MaxEvents == 2

\* Local midnight of the Monday after the zone's transition Sunday.
MondayMidnight(z) == 4 * DAY_MS - ZoneOffset(z, 5 * DAY_MS)

\* Readings of Date.now(): Saturday evening before the transition, the
\* Sunday of the transition (with a sub-second part), 5 ms, 90 minutes and
\* 12 hours after Monday's local midnight.
NowInstants(z) ==
    { Transition(z) - 5 * HOUR_MS, Transition(z) + 30 * MINUTE_MS + 500,
      MondayMidnight(z) + 5, MondayMidnight(z) + 90 * MINUTE_MS,
      MondayMidnight(z) + (2 * HOUR_MS) - 1, MondayMidnight(z) + 2 * HOUR_MS,
      MondayMidnight(z) + 12 * HOUR_MS }

\* Event instants: in the week before, two days before the transition (with
\* a sub-second part), just before and after the transition, around Monday's
\* local midnight, and two hours before the clock's reading.
EventInstants(z, nowTs) ==
    { Transition(z) - 9 * DAY_MS, Transition(z) - (2 * DAY_MS) - (3 * HOUR_MS) + 999,
      Transition(z) - 6 * HOUR_MS, Transition(z) + 20 * MINUTE_MS,
      MondayMidnight(z) - 1, MondayMidnight(z), MondayMidnight(z) + HOUR_MS,
      nowTs - 2 * HOUR_MS }

\* The counts of an event: the current field ai, or its legacy alias encore;
\* with or without zero_etv.
EventCounts ==
    { [ai |-> 5, last_chance |-> 1],
      [encore |-> 10, last_chance |-> 0, zero_etv |-> 2] }

HistoryItem(t, counts) ==
    [k \in DOMAIN counts \cup {"t"} |-> IF k = "t" THEN t ELSE counts[k]]

\* The counts of the events handed to processStats: those above, and two
\* whose totals (40 and 63) put the growth on a tie (57.5 percent).
StatsEventCounts ==
    EventCounts \cup { [ai |-> 35, last_chance |-> 5], [ai |-> 60, last_chance |-> 3] }

HistoryItems(z, nowTs) ==
    { HistoryItem(t, c) : t \in EventInstants(z, nowTs), c \in StatsEventCounts }

IsSorted(items) == \A i \in 1..(Len(items) - 1) : items[i].t <= items[i + 1].t

\* The histories handed to the engine: sorted ascending by t.
Histories(z, nowTs) ==
    { h \in UNION { [1..n -> HistoryItems(z, nowTs)] : n \in 0..MaxEvents } : IsSorted(h) }

IdleSegments ==
    /\ startTs = 0
    /\ endTs = 0
    /\ segments = <<>>
    /\ indexRef = 1
    /\ query = NoQuery

InitStats ==
    /\ zone \in Zones
    /\ now \in NowInstants(zone)
    /\ history \in Histories(zone, now)
    /\ updatedAtStr \in UpdatedAtStrs
    /\ stats = NoStats
    /\ legacy = NoStats
    /\ app = NoApp
    /\ granularity = Null
    /\ filter = Null
    /\ chart = <<>>
    /\ heat = NoStats
    /\ IdleSegments

ProcessStats ==
    /\ stats = NoStats
    /\ stats' = processStats(history, updatedAtStr, now)
    /\ UNCHANGED <<app, zone, now, history, updatedAtStr, granularity, filter, startTs, endTs,
                   segments, indexRef, query, legacy, chart, heat>>

ProcessStatsLegacy ==
    /\ legacy = NoStats
    /\ legacy' = processStatsLegacy(history, updatedAtStr, now)
    /\ UNCHANGED <<app, zone, now, history, updatedAtStr, granularity, filter, startTs, endTs,
                   segments, indexRef, query, stats, chart, heat>>

NextStats == ProcessStats \/ ProcessStatsLegacy

SpecStats == InitStats /\ [][NextStats]_vars

\* The fields of DashboardStats that the benchmark compares, updatedAt aside.
Dashboard(r) ==
    [ lastHour |-> r.lastHour, today |-> r.today, todayGrowth |-> r.todayGrowth,
      todayMedian |-> r.todayMedian, thisWeek |-> r.thisWeek,
      weekGrowth |-> r.weekGrowth, weekMedian |-> r.weekMedian ]

\* C2 (as claimed): for any non-empty sorted history and any current instant,
\* processStats returns the same DashboardStats as processStatsLegacy.
C2_StatsMatchLegacy ==
    (stats # NoStats /\ legacy # NoStats /\ history # <<>>) =>
        Dashboard(stats) = Dashboard(legacy)


\* The history of one event two hours before the clock's reading.
TwoHoursAgoHistory == <<HistoryItem(now - 2 * HOUR_MS, [ai |-> 5, last_chance |-> 1])>>

\* The instant at which the local day of the clock's reading began.
StartOfToday == valueOfMidnight(startOfDay(tz(now)))

\* C9 (as claimed): for every current instant, processStats on
\* [{t: now - 2h, ai: 5, last_chance: 1}] returns lastHour 0, today 6,
\* todayMedian 0 and todayGrowth 100.
C9_TwoHoursAgoIsToday ==
    (stats # NoStats /\ history = TwoHoursAgoHistory) =>
        /\ stats.lastHour = 0
        /\ stats.today = 6
        /\ stats.todayMedian = 0
        /\ stats.todayGrowth = 100

\* C9 (amended): on that history lastHour is 0; when now - 2h is at or after
\* the start of the current local day, today is 6, todayMedian 0 and
\* todayGrowth 100; when it is before (now is less than two hours into the
\* local day) the event belongs to the day before: today is 0, todayMedian 6
\* and todayGrowth -100.
C9_TwoHoursAgoTodayOrYesterday ==
    (stats # NoStats /\ history = TwoHoursAgoHistory) =>
        /\ stats.lastHour = 0
        /\ IF now - 2 * HOUR_MS >= StartOfToday
           THEN stats.today = 6 /\ stats.todayMedian = 0 /\ stats.todayGrowth = 100
           ELSE stats.today = 0 /\ stats.todayMedian = 6 /\ stats.todayGrowth = -100

C9_Witness ==
    /\ stats # NoStats
    /\ history = TwoHoursAgoHistory
    /\ now - 2 * HOUR_MS < StartOfToday
    /\ stats.today = 0
    /\ stats.todayMedian = 6

\* C12: processStats on an empty history returns the seven figures 0 and
\* updatedAt = null, whatever updatedAtStr is.
C12_EmptyHistoryAllZero ==
    (stats # NoStats /\ history = <<>>) =>
        /\ Dashboard(stats) =
               [ lastHour |-> 0, today |-> 0, todayGrowth |-> 0, todayMedian |-> 0,
                 thisWeek |-> 0, weekGrowth |-> 0, weekMedian |-> 0 ]
        /\ stats.updatedAt = NoDate

C12_Witness ==
    /\ stats # NoStats
    /\ history = <<>>
    /\ updatedAtStr = "2024-03-10T10:00:00.000Z"
    /\ stats.updatedAt = NoDate

\* The instant at which the iso-week of the clock's reading began.
StartOfThisWeek == valueOfMidnight(startOfIsoWeek(tz(now)))

\* The totals of the local days strictly before today, one per day that has
\* an event, and of the iso-weeks strictly before the current one.
EarlierDayTotals ==
    LET before == SelectSeq(history, LAMBDA h : h.t < StartOfToday)
    IN  GroupTotals(before, [i \in 1..Len(before) |-> formatDate(tz(before[i].t))])

EarlierWeekTotals ==
    LET before == SelectSeq(history, LAMBDA h : h.t < StartOfThisWeek)
    IN  GroupTotals(before, [i \in 1..Len(before) |-> startOfIsoWeek(tz(before[i].t))])

\* round((current - median) * 100 / median) of the exact quotient, 100 for a
\* zero median.
PercentGrowth(current, median) ==
    IF median = 0 THEN 100 ELSE MathRound((current - median) * 100, median)

\* The part of C13 about the medians.
C13_MediansOverEarlierPeriods ==
    (stats # NoStats /\ history # <<>>) =>
        /\ stats.todayMedian = MathRound(calculateMedian(EarlierDayTotals), 2)
        /\ stats.weekMedian = MathRound(calculateMedian(EarlierWeekTotals), 2)

\* The part of C13 about the growths.
C13_GrowthFromMedian ==
    (stats # NoStats /\ history # <<>>) =>
        /\ stats.todayGrowth = PercentGrowth(stats.today, stats.todayMedian)
        /\ stats.weekGrowth = PercentGrowth(stats.thisWeek, stats.weekMedian)

\* C13 (as claimed): for a non-empty history, todayMedian is the rounded
\* median of the totals of the local days strictly before today, and
\* todayGrowth is 100 when that median is 0, otherwise
\* round((today - todayMedian) * 100 / todayMedian); weekMedian and
\* weekGrowth follow the same formula over the iso-weeks strictly before the
\* current one.
C13_MedianAndGrowth ==
    C13_MediansOverEarlierPeriods /\ C13_GrowthFromMedian

\* The total of the events at or after an instant.
TotalFrom(start) == sumBy(SelectSeq(history, LAMBDA h : h.t >= start))

\* C16 (as claimed): an event is counted into lastHour exactly when
\* t > now - 1h (so not at now - 1h itself), into today exactly when t is at
\* or after the instant of today's local midnight, into thisWeek exactly
\* when t is at or after the instant of the local midnight of the current
\* iso-week's Monday; an event later than now is counted in all three.
C16_CountedFromThresholds ==
    (stats # NoStats /\ history # <<>>) =>
        /\ stats.lastHour = TotalFrom(now - HOUR_MS + 1)
        /\ stats.today = TotalFrom(StartOfToday)
        /\ stats.thisWeek = TotalFrom(StartOfThisWeek)

\* The part of C16 about lastHour, which holds at every instant.
C16_LastHour ==
    (stats # NoStats /\ history # <<>>) => stats.lastHour = TotalFrom(now - HOUR_MS + 1)

\* The part of C16 about today and thisWeek, which holds when the clock's
\* reading and the events have no sub-second part.
C16_WholeSeconds ==
    (stats # NoStats /\ history # <<>> /\ now % 1000 = 0
        /\ \A i \in 1..Len(history) : history[i].t % 1000 = 0) =>
        /\ stats.today = TotalFrom(StartOfToday)
        /\ stats.thisWeek = TotalFrom(StartOfThisWeek)

\* The zone's clock reads 00:00:00.000 at the instant.
IsLocalMidnight(ts) == tz(ts) % DAY_MS = 0

\* The zone's clock reads 00:00:00.000 of a Monday at the instant (the
\* instant 0 of local time is a Thursday).
IsLocalMondayMidnight(ts) == (tz(ts) - 4 * DAY_MS) % WEEK_MS = 0

\* C23 (as claimed): wherever the events lie relative to now, todayStartTs
\* is the instant of the local midnight that begins now's local day and
\* weekStartTs that of the Monday local midnight that begins now's
\* iso-week: weekStartTs <= todayStartTs <= now, the local clock reads 00:00
\* at both, and no later local midnight (Monday midnight) is <= now.
C23_BoundariesOfNow ==
    (stats # NoStats /\ history # <<>>) =>
        /\ stats.weekStartTs <= stats.todayStartTs
        /\ stats.todayStartTs <= now
        /\ IsLocalMidnight(stats.todayStartTs)
        /\ IsLocalMondayMidnight(stats.weekStartTs)
        /\ tz(now) - tz(stats.todayStartTs) < DAY_MS
        /\ tz(now) - tz(stats.weekStartTs) < WEEK_MS
        /\ stats.todayStartTs = StartOfToday
        /\ stats.weekStartTs = StartOfThisWeek

\* The part of C23 that holds when the clock's reading and the first event
\* have no sub-second part.
C23_WholeSeconds ==
    (stats # NoStats /\ history # <<>> /\ now % 1000 = 0 /\ history[1].t % 1000 = 0) =>
        /\ stats.todayStartTs = StartOfToday
        /\ stats.weekStartTs = StartOfThisWeek
        /\ IsLocalMidnight(stats.todayStartTs)
        /\ IsLocalMondayMidnight(stats.weekStartTs)

---------------------------------------------------------------------------
(* Calls of processChartData.                                              *)

MaxChartEvents == 2

SundayMidnight(z) == 3 * DAY_MS - ZoneOffset(z, 3 * DAY_MS)

\* The instants are chosen per granularity so that the span from the first
\* event to now is a few hours for 15m, under two days for 1h and up to
\* five days for 1d.
ChartNowInstants(z, g) ==
    IF g = "15m"
    THEN { Transition(z) - 30 * MINUTE_MS, Transition(z) + 30 * MINUTE_MS + 500,
           Transition(z) + 4 * HOUR_MS }
    ELSE IF g = "1h"
    THEN { Transition(z) - 5 * HOUR_MS, Transition(z) + 30 * MINUTE_MS + 500,
           MondayMidnight(z) + 5 }
    ELSE { Transition(z) - 5 * HOUR_MS, Transition(z) + 30 * MINUTE_MS + 500,
           MondayMidnight(z) + 5, MondayMidnight(z) + 12 * HOUR_MS }

ChartEventInstants(z, g) ==
    IF g = "15m"
    THEN { SundayMidnight(z) - 1, SundayMidnight(z),
           Transition(z) - 40 * MINUTE_MS, Transition(z) - 1,
           Transition(z) + 20 * MINUTE_MS, Transition(z) + 2 * HOUR_MS + 500 }
    ELSE IF g = "1h"
    THEN { SundayMidnight(z) - 1, SundayMidnight(z),
           Transition(z) - 40 * MINUTE_MS, Transition(z) + 20 * MINUTE_MS,
           MondayMidnight(z) - 1, MondayMidnight(z) + 500 }
    ELSE { 0, 23 * 3600 * 1000,
           SundayMidnight(z) - 1, SundayMidnight(z),
           Transition(z) - 40 * MINUTE_MS, Transition(z) + 20 * MINUTE_MS,
           MondayMidnight(z) - 1, MondayMidnight(z) + 500 }

ChartItems(z, g) == { HistoryItem(t, c) : t \in ChartEventInstants(z, g), c \in EventCounts }

ChartHistories(z, g) ==
    { h \in UNION { [1..n -> ChartItems(z, g)] : n \in 0..MaxChartEvents } : IsSorted(h) }

InitChart ==
    /\ zone \in Zones
    /\ granularity \in Granularities
    /\ now \in ChartNowInstants(zone, granularity)
    /\ history \in ChartHistories(zone, granularity)
    /\ updatedAtStr = Null
    /\ filter \in DataFilters
    /\ chart = NoStats
    /\ stats = NoStats
    /\ legacy = NoStats
    /\ app = NoApp
    /\ heat = NoStats
    /\ IdleSegments

ProcessChartData ==
    /\ chart = NoStats
    /\ chart' = processChartData(history, granularity, filter, now)
    /\ UNCHANGED <<app, zone, now, history, updatedAtStr, granularity, filter, startTs, endTs,
                   segments, indexRef, query, stats, legacy, heat>>

NextChart == ProcessChartData

SpecChart == InitChart /\ [][NextChart]_vars

Charted == chart # NoStats

RECURSIVE SumTotal(_)
SumTotal(points) == IF points = <<>> THEN 0 ELSE Head(points).total + SumTotal(Tail(points))

\* C3: for a non-empty sorted history, any granularity and filter 'all', the
\* totals of the buckets add up to the sum of (ai ?? encore ?? 0) +
\* last_chance over the events.
C3_BucketTotalsSumToEvents ==
    (Charted /\ history # <<>> /\ filter = "all") =>
        SumTotal(chart.points) = sumBy(history)

C3_Witness ==
    /\ Charted
    /\ filter = "all"
    /\ Len(history) = 2
    /\ SumTotal(chart.points) = 16
    /\ \E i, j \in 1..Len(chart.points) :
          i < j /\ chart.points[i].total = 6 /\ chart.points[j].total = 10

\* C4: consecutive buckets are gap-free: for 15m and 1h their dates differ by
\* exactly the interval; for 1d their local day keys
\* floor((date + offset) / 86400000) differ by exactly 1.
C4_BucketsGapFree ==
    Charted =>
        \A i \in 1..(Len(chart.points) - 1) :
            IF granularity = "1d"
            THEN tz(chart.points[i + 1].date) \div 86400000
                     = (tz(chart.points[i].date) \div 86400000) + 1
            ELSE chart.points[i + 1].date - chart.points[i].date
                     = (IF granularity = "15m" THEN 900000 ELSE 3600000)

C4_Witness ==
    /\ Charted
    /\ granularity = "1d"
    /\ HasTransition(zone)
    /\ \E i \in 1..(Len(chart.points) - 1) :
          /\ chart.points[i].date < Transition(zone)
          /\ chart.points[i + 1].date > Transition(zone)
          /\ chart.points[i + 1].date - chart.points[i].date # DAY_MS

\* The history of two events at t = 0 and t = 23 * 3600 * 1000, bucketed by
\* day under filter 'all' in the week of constant UTC-8.
C8Scenario ==
    /\ Charted
    /\ zone = "winter"
    /\ granularity = "1d"
    /\ filter = "all"
    /\ Len(history) = 2
    /\ history[1].t = 0
    /\ history[2].t = 23 * 3600 * 1000

\* C8 (as claimed): with a constant UTC-8 offset, events at t = 0 and
\* t = 23 * 3600 * 1000 are counted in one and the same 1d bucket.
C8_BothEventsInOneBucket ==
    C8Scenario =>
        \E i \in 1..Len(chart.points) : chart.points[i].total = sumBy(history)

\* C8 (amended): with a constant UTC-8 offset, the event at t = 0 (16:00 of
\* 1969-12-31 local) is counted in the first bucket, which starts at
\* -57600000, and the event at t = 23 * 3600 * 1000 (15:00 of 1970-01-01
\* local) in the second, which starts at 28800000.
C8_EventsInConsecutiveBuckets ==
    C8Scenario =>
        /\ Len(chart.points) >= 2
        /\ chart.points[1].date = -57600000
        /\ chart.points[1].total = sumBy(<<history[1]>>)
        /\ chart.points[2].date = 28800000
        /\ chart.points[2].total = sumBy(<<history[2]>>)

C8_Witness ==
    /\ C8Scenario
    /\ chart.points[1].total > 0
    /\ chart.points[2].total > 0
    /\ chart.points[1].total # chart.points[2].total

\* The events of the i-th bucket: from its date up to the date of the next
\* bucket, up to the last event for the last bucket.
BucketEvents(i) ==
    SelectSeq(history, LAMBDA h :
        /\ chart.points[i].date <= h.t
        /\ i < Len(chart.points) => h.t < chart.points[i + 1].date)

RECURSIVE SumAi(_)
SumAi(items) == IF items = <<>> THEN 0 ELSE getAiCount(Head(items)) + SumAi(Tail(items))

RECURSIVE SumLastChance(_)
SumLastChance(items) ==
    IF items = <<>> THEN 0 ELSE Head(items).last_chance + SumLastChance(Tail(items))

RECURSIVE SumZeroEtv(_)
SumZeroEtv(items) ==
    IF items = <<>> THEN 0 ELSE getZeroEtvCount(Head(items)) + SumZeroEtv(Tail(items))

\* C15: in every bucket, under filter 'all' ai, lastChance and zeroEtv are
\* the sums of the events' ai-count, last_chance and zero_etv; under
\* 'zeroEtv' ai and lastChance are 0 and zeroEtv is the sum of zero_etv;
\* under 'afa' ai and zeroEtv are 0 and lastChance is the sum of
\* last_chance; total is ai + lastChance in all three (0 under 'zeroEtv').
C15_FilterKeepsItsCounts ==
    (Charted /\ history # <<>>) =>
        \A i \in 1..Len(chart.points) :
            LET point == chart.points[i]
            IN  /\ point.ai = (IF filter = "all" THEN SumAi(BucketEvents(i)) ELSE 0)
                /\ point.lastChance =
                       (IF filter = "zeroEtv" THEN 0 ELSE SumLastChance(BucketEvents(i)))
                /\ point.zeroEtv =
                       (IF filter = "afa" THEN 0 ELSE SumZeroEtv(BucketEvents(i)))
                /\ point.total = point.ai + point.lastChance
                /\ filter = "zeroEtv" => point.total = 0

C15_Witness ==
    /\ Charted
    /\ filter = "zeroEtv"
    /\ \E i \in 1..Len(chart.points) :
          /\ chart.points[i].zeroEtv = 2
          /\ chart.points[i].ai = 0
          /\ chart.points[i].total = 0
          /\ SumAi(BucketEvents(i)) = 10

\* The events of the interval that begins at date.
EventsWithin(date, intervalMs) ==
    SelectSeq(history, LAMBDA h : date <= h.t /\ h.t < date + intervalMs)

\* C20: for 15m or 1h and a non-empty sorted history there is one bucket
\* for every multiple of the interval from floor(first event / interval) *
\* interval up to and including floor(max(now, last event) / interval) *
\* interval, in ascending order, the buckets without an event included (all
\* sums 0), and each event is counted in the bucket with
\* date <= t < date + interval.
C20_OneBucketPerInterval ==
    (Charted /\ history # <<>> /\ granularity \in {"15m", "1h"}) =>
        LET interval == IF granularity = "15m" THEN 900000 ELSE 3600000
            first    == (history[1].t \div interval) * interval
            last     == (Max(now, history[Len(history)].t) \div interval) * interval
        IN  /\ Len(chart.points) = ((last - first) \div interval) + 1
            /\ \A i \in 1..Len(chart.points) :
                  LET point  == chart.points[i]
                      events == EventsWithin(first + (i - 1) * interval, interval)
                  IN  /\ point.date = first + (i - 1) * interval
                      /\ point.ai = (IF filter = "all" THEN SumAi(events) ELSE 0)
                      /\ point.lastChance =
                             (IF filter = "zeroEtv" THEN 0 ELSE SumLastChance(events))
                      /\ point.zeroEtv = (IF filter = "afa" THEN 0 ELSE SumZeroEtv(events))
                      /\ point.total = point.ai + point.lastChance

C20_Witness ==
    /\ Charted
    /\ granularity = "15m"
    /\ filter = "all"
    /\ Len(history) = 2
    /\ \E i, j, k \in 1..Len(chart.points) :
          /\ i < j
          /\ j < k
          /\ chart.points[i].total > 0
          /\ chart.points[j].total = 0
          /\ chart.points[j].zeroEtv = 0
          /\ chart.points[k].total > 0
          /\ chart.points[Len(chart.points)].date > history[2].t

\* The key of the local day of an instant, as the zone's clock reads it.
LocalDayKey(ts) == tz(ts) \div 86400000

\* C21 (as claimed): for 1d and a sorted history there is exactly one
\* bucket per local day key from the first event's local day to the local
\* day of max(now, last event); each bucket's date is the instant of that
\* local day's midnight (date + offset at date = day key * 86400000); an
\* event is counted in bucket k exactly when date_k <= t < date_(k+1), also
\* on the 23-hour and 25-hour days of a transition.
C21_OneBucketPerLocalDay ==
    (Charted /\ history # <<>> /\ granularity = "1d") =>
        LET firstKey == LocalDayKey(history[1].t)
            lastKey  == LocalDayKey(Max(now, history[Len(history)].t))
        IN  /\ Len(chart.points) = lastKey - firstKey + 1
            /\ \A k \in 1..Len(chart.points) :
                  LET point == chart.points[k]
                  IN  /\ tz(point.date) = (firstKey + k - 1) * 86400000
                      /\ point.ai = (IF filter = "all" THEN SumAi(BucketEvents(k)) ELSE 0)
                      /\ point.lastChance =
                             (IF filter = "zeroEtv" THEN 0 ELSE SumLastChance(BucketEvents(k)))
                      /\ point.zeroEtv =
                             (IF filter = "afa" THEN 0 ELSE SumZeroEtv(BucketEvents(k)))

\* The part of C21 that holds when the first event has no sub-second part.
C21_WholeSecondFirstEvent ==
    (Charted /\ history # <<>> /\ granularity = "1d" /\ history[1].t % 1000 = 0) =>
        LET firstKey == LocalDayKey(history[1].t)
            lastKey  == LocalDayKey(Max(now, history[Len(history)].t))
        IN  /\ Len(chart.points) = lastKey - firstKey + 1
            /\ \A k \in 1..Len(chart.points) :
                  tz(chart.points[k].date) = (firstKey + k - 1) * 86400000

---------------------------------------------------------------------------
(* Calls of processHeatMaps.                                               *)

MaxHeatEvents == 2

\* The instant at which the zone's clock shows the local reading localTs.
LocalInstant(z, localTs) ==
    CHOOSE t \in { localTs - PST, localTs - PDT } : t + ZoneOffset(z, t) = localTs

\* Local readings: Tuesday 10:00 of the week of the transition and of the
\* three weeks after it, and Thursday 12:00 of the last of them.
Tuesday10(week) == (week * WEEK_MS) - (3 * DAY_MS) + (34 * HOUR_MS)
Thursday12(week) == (week * WEEK_MS) + (12 * HOUR_MS)

HeatEventInstants(z) ==
    { LocalInstant(z, Tuesday10(0)), LocalInstant(z, Tuesday10(1)),
      LocalInstant(z, Tuesday10(2)) + 30 * MINUTE_MS, LocalInstant(z, Tuesday10(3)),
      LocalInstant(z, Thursday12(3)),
      Transition(z) - (40 * MINUTE_MS) + 999, Transition(z) + 20 * MINUTE_MS,
      Transition(z) + (20 * MINUTE_MS) + 1,
      MondayMidnight(z) - 1, MondayMidnight(z) + 50 }

\* Readings of the clock (counted from ClockWeeks weeks after the origin)
\* whose cutoff lies before every event, exactly at the event 20 minutes
\* after the transition, and after every event.
HeatNowInstants(z) ==
    { 0 - 3 * DAY_MS,
      Transition(z) + (20 * MINUTE_MS) + DAY_MS,
      LocalInstant(z, Thursday12(3)) + DAY_MS + 5 }

HeatItems(z) == { HistoryItem(t, c) : t \in HeatEventInstants(z), c \in EventCounts }

HeatHistories(z) ==
    { h \in UNION { [1..n -> HeatItems(z)] : n \in 0..MaxHeatEvents } : IsSorted(h) }

InitHeat ==
    /\ zone \in Zones
    /\ now \in HeatNowInstants(zone)
    /\ history \in HeatHistories(zone)
    /\ updatedAtStr = Null
    /\ granularity = Null
    /\ filter \in DataFilters
    /\ heat = NoStats
    /\ chart = NoStats
    /\ stats = NoStats
    /\ legacy = NoStats
    /\ app = NoApp
    /\ IdleSegments

ProcessHeatMaps ==
    /\ heat = NoStats
    /\ heat' = processHeatMaps(history, filter, now)
    /\ UNCHANGED <<app, zone, now, history, updatedAtStr, granularity, filter, startTs, endTs,
                   segments, indexRef, query, stats, legacy, chart>>

NextHeat == ProcessHeatMaps

SpecHeat == InitHeat /\ [][NextHeat]_vars

\* The events later than the cutoff, 365 days before the clock's reading.
AfterCutoff == SelectSeq(history, LAMBDA item : item.t + DAY_MS > now)

Heated == heat # NoStats /\ AfterCutoff # <<>>

\* The iso-week of an instant in the zone, numbered from the week of the
\* transition.
IsoWeekOf(t) == (startOfIsoWeek(tz(t)) + 3) \div 7

\* The total, under the filter, of the events of the iso-week w.
RECURSIVE WeekTotal(_, _)
WeekTotal(items, w) ==
    IF items = <<>>
    THEN 0
    ELSE (IF IsoWeekOf(Head(items).t) = w THEN heatTotal(Head(items), filter) ELSE 0)
             + WeekTotal(Tail(items), w)

\* The k-th smallest sample.
KthSmallest(samples, k) ==
    CHOOSE x \in { samples[i] : i \in 1..Len(samples) } :
        /\ Cardinality({ i \in 1..Len(samples) : samples[i] < x }) < k
        /\ Cardinality({ i \in 1..Len(samples) : samples[i] <= x }) >= k

\* Ten times the median of the samples.
MedianInTenths(samples) ==
    IF Len(samples) % 2 = 1
    THEN 10 * KthSmallest(samples, (Len(samples) + 1) \div 2)
    ELSE 5 * (KthSmallest(samples, Len(samples) \div 2)
                 + KthSmallest(samples, (Len(samples) \div 2) + 1))

RECURSIVE SumSeq(_)
SumSeq(values) == IF values = <<>> THEN 0 ELSE Head(values) + SumSeq(Tail(values))

\* The sample of week index k summed over the cells.
SamplesOfWeek(k) ==
    SumSeq([d \in 1..7 |->
               SumSeq([h \in 1..24 |-> heat.hourlyWeekSums[d - 1][h - 1][k]])])

\* C10: every cell's median is taken over exactly weekCount samples, one
\* per iso-week from that of the earliest event to that of the latest, a
\* week without an event in the cell counting as the sample 0.
C10_MedianOverEveryWeek ==
    Heated =>
        LET minWeek == IsoWeekOf(AfterCutoff[1].t)
            maxWeek == IsoWeekOf(AfterCutoff[Len(AfterCutoff)].t)
        IN  /\ heat.weekCount = maxWeek - minWeek + 1
            /\ \A k \in 1..heat.weekCount :
                   SamplesOfWeek(k) = WeekTotal(AfterCutoff, minWeek + k - 1)
            /\ \A d \in Days, h \in Hours :
                   /\ Len(heat.hourlyWeekSums[d][h]) = heat.weekCount
                   /\ heat.hourlyMedian[d][h] = MedianInTenths(heat.hourlyWeekSums[d][h])

\* The example of C10: four weeks, a cell with the totals 10, 0, 0, 0 and
\* the median 0.
C10_Example ==
    /\ Heated
    /\ heat.weekCount = 4
    /\ \E d \in Days, h \in Hours :
          /\ heat.hourlyWeekSums[d][h] = <<10, 0, 0, 0>>
          /\ heat.hourlyMedian[d][h] = 0

\* The sum of the entries of weekly.
WeeklySum(weekly) == SumSeq(ObjectValues(weekly))

\* The total, under the filter, of the events of a history.
RECURSIVE HeatTotalOf(_)
HeatTotalOf(items) ==
    IF items = <<>> THEN 0 ELSE heatTotal(Head(items), filter) + HeatTotalOf(Tail(items))

\* C11: processHeatMaps ignores every event with t <= now - 365 days: the
\* result is that of the history without these events (weekly, both
\* matrices, the maxima, weekCount), and weekly holds the totals of the
\* events later than the cutoff, an event at cutoff + 1 included.
C11_CutoffExclusive ==
    heat # NoStats =>
        /\ heat = processHeatMaps(AfterCutoff, filter, now)
        /\ WeeklySum(heat.weekly) = HeatTotalOf(AfterCutoff)

C11_Witness ==
    /\ heat # NoStats
    /\ filter = "all"
    /\ Len(history) = 2
    /\ history[1].t = now - DAY_MS
    /\ history[2].t = now - DAY_MS + 1
    /\ WeeklySum(heat.weekly) = HeatTotalOf(<<history[2]>>)
    /\ heat.weekCount = 1

---------------------------------------------------------------------------
(* Calls of calculateMedian on a list of numbers.                          *)

MaxValues == 4

\* The numbers of a list: totals are non-negative, a negative one is there
\* for the comparator of the sort.
MedianValues == -1..4

InitMedian ==
    /\ zone = "winter"
    /\ app = NoApp
    /\ IdleEngine
    /\ startTs = 0
    /\ endTs = 0
    /\ segments = <<>>
    /\ indexRef = 1
    /\ query \in { [fn |-> "values", values |-> v, result |-> 0] :
                     v \in UNION { [1..n -> MedianValues] : n \in 0..MaxValues } }

CalculateMedian ==
    /\ query.fn = "values"
    /\ query' = [ fn |-> "calculateMedian", values |-> query.values,
                  result |-> calculateMedian(query.values) ]
    /\ UNCHANGED <<app, zone, now, history, updatedAtStr, granularity, filter, startTs, endTs,
                   segments, indexRef, stats, legacy, chart, heat>>

NextMedian == CalculateMedian

SpecMedian == InitMedian /\ [][NextMedian]_vars

\* The orderings of a list.
Reorderings(values) ==
    { [i \in 1..Len(values) |-> values[p[i]]] :
        p \in { f \in [1..Len(values) -> 1..Len(values)] :
                  \A i, j \in 1..Len(values) : i # j => f[i] # f[j] } }

\* Twice the median of the list: 0 for the empty list, the central value by
\* rank for an odd length, the mean of the two central ones for an even one.
TwiceMedian(values) ==
    IF Len(values) = 0
    THEN 0
    ELSE IF Len(values) % 2 = 1
         THEN 2 * KthSmallest(values, (Len(values) + 1) \div 2)
         ELSE KthSmallest(values, Len(values) \div 2)
                  + KthSmallest(values, (Len(values) \div 2) + 1)

\* C14: calculateMedian returns 0 for the empty list, the central value of
\* the sorted list for an odd length and the mean of the two central values
\* for an even length (3 for [3], 2.5 for [1,2,3,4]), whatever the order of
\* the values.  The result is kept in halves.
C14_MedianOfSortedValues ==
    query.fn = "calculateMedian" =>
        /\ query.result = TwiceMedian(query.values)
        /\ query.values = <<>> => query.result = 0
        /\ query.values = <<3>> => query.result = 2 * 3
        /\ query.values = <<1, 2, 3, 4>> => query.result = 5
        /\ \A other \in Reorderings(query.values) : calculateMedian(other) = query.result

C14_Witness ==
    /\ query.fn = "calculateMedian"
    /\ query.values = <<4, 1, 3, 2>>
    /\ query.result = 5

---------------------------------------------------------------------------
(* Calls of processStats, processChartData and processHeatMaps on a        *)
(* history that is not sorted ascending by t.                              *)

MaxUnsorted == 2

\* The lists of two to MaxUnsorted of the items that are not sorted.
Unsorted(items) ==
    { h \in UNION { [1..n -> items] : n \in 2..MaxUnsorted } : ~IsSorted(h) }

InitUnsortedStats ==
    /\ now \in NowInstants(zone)
    /\ history \in Unsorted({ HistoryItem(t, c) : t \in EventInstants(zone, now),
                                                  c \in EventCounts })
    /\ updatedAtStr = "2024-03-10T10:00:00.000Z"
    /\ granularity = Null
    /\ filter = Null

InitUnsortedChart ==
    /\ granularity \in Granularities
    /\ now \in ChartNowInstants(zone, granularity)
    /\ history \in Unsorted(ChartItems(zone, granularity))
    /\ updatedAtStr = Null
    /\ filter = "all"

InitUnsortedHeat ==
    /\ now \in HeatNowInstants(zone)
    /\ history \in Unsorted(HeatItems(zone))
    /\ updatedAtStr = Null
    /\ granularity = Null
    /\ filter = "all"

InitUnsorted ==
    /\ zone \in Zones
    /\ \/ InitUnsortedStats
       \/ InitUnsortedChart
       \/ InitUnsortedHeat
    /\ stats = NoStats
    /\ legacy = NoStats
    /\ app = NoApp
    /\ chart = NoStats
    /\ heat = NoStats
    /\ IdleSegments

\* The caller holds the arguments of one of the three functions.
NextUnsorted ==
    \/ granularity = Null /\ filter = Null /\ ProcessStats
    \/ granularity # Null /\ ProcessChartData
    \/ granularity = Null /\ filter # Null /\ ProcessHeatMaps

SpecUnsorted == InitUnsorted /\ [][NextUnsorted]_vars

\* The call has ended by throwing.
Thrown(result) == "error" \in DOMAIN result

\* C17 (as claimed): on a history that is not sorted ascending by t,
\* processChartData, processStats and processHeatMaps return a result
\* without raising an error, for every ordering of the events, a first event
\* later than both now and the last event included.
C17_UnsortedReturnsResult ==
    /\ stats # NoStats => ~Thrown(stats) /\ stats.lastHour >= 0
    /\ chart # NoStats => ~Thrown(chart) /\ Len(chart.points) >= 0
    /\ heat # NoStats => ~Thrown(heat) /\ heat.maxDaily >= 1

\* The parts of C17 about processStats and processHeatMaps, and about the
\* 15m and 1h granularities of processChartData, which hold.
C17_UnsortedOffTheDayPath ==
    /\ stats # NoStats => ~Thrown(stats) /\ stats.lastHour >= 0
    /\ (chart # NoStats /\ granularity # "1d") => ~Thrown(chart) /\ Len(chart.points) >= 0
    /\ heat # NoStats => ~Thrown(heat) /\ heat.maxDaily >= 1

---------------------------------------------------------------------------
(* Repeated calls of processStats, processChartData and processHeatMaps    *)
(* with the same arguments, the clock moving between the calls.            *)

MaxRepeated == 1
MaxCalls == 2

\* The sorted lists of up to MaxRepeated of the items.
Repeated(items) ==
    { h \in UNION { [1..n -> items] : n \in 0..MaxRepeated } : IsSorted(h) }

\* The readings Date.now() may give to the caller that holds the arguments
\* of processChartData, of processHeatMaps or of processStats.
ClockReadings ==
    IF granularity # Null
    THEN ChartNowInstants(zone, granularity)
    ELSE IF filter # Null
         THEN HeatNowInstants(zone)
         ELSE NowInstants(zone)

InitRepeated ==
    /\ zone \in Zones
    /\ \/ /\ granularity = Null
          /\ filter = Null
          /\ updatedAtStr = "2024-03-10T10:00:00.000Z"
          /\ now \in NowInstants(zone)
          /\ history \in Repeated({ HistoryItem(t, c) :
                                      t \in EventInstants(zone, MondayMidnight(zone)),
                                      c \in EventCounts })
       \/ /\ granularity \in Granularities
          /\ filter = "all"
          /\ updatedAtStr = Null
          /\ now \in ChartNowInstants(zone, granularity)
          /\ history \in Repeated(ChartItems(zone, granularity))
       \/ /\ granularity = Null
          /\ filter = "all"
          /\ updatedAtStr = Null
          /\ now \in HeatNowInstants(zone)
          /\ history \in Repeated(HeatItems(zone))
    /\ stats = NoStats
    /\ legacy = NoStats
    /\ app = NoApp
    /\ chart = NoStats
    /\ heat = NoStats
    /\ IdleSegments

\* The clock reads something else.
Tick ==
    /\ now' \in ClockReadings \ {now}
    /\ UNCHANGED <<app, zone, history, updatedAtStr, granularity, filter, startTs, endTs,
                   segments, indexRef, query, stats, legacy, chart, heat>>

\* The record of a call: how many calls were made, the reading of the clock
\* at this one and at the one before it (at this one, for the first call).
Called ==
    /\ query.result < MaxCalls
    /\ query' = [ fn |-> "Date.now", ts |-> now, result |-> query.result + 1,
                  earlier |-> IF query.fn = "Date.now" THEN query.ts ELSE now ]

CallProcessStats ==
    /\ granularity = Null
    /\ filter = Null
    /\ Called
    /\ stats' = processStats(history, updatedAtStr, now)
    /\ UNCHANGED <<app, zone, now, history, updatedAtStr, granularity, filter, startTs, endTs,
                   segments, indexRef, legacy, chart, heat>>

CallProcessChartData ==
    /\ granularity # Null
    /\ Called
    /\ chart' = processChartData(history, granularity, filter, now)
    /\ UNCHANGED <<app, zone, now, history, updatedAtStr, granularity, filter, startTs, endTs,
                   segments, indexRef, stats, legacy, heat>>

CallProcessHeatMaps ==
    /\ granularity = Null
    /\ filter # Null
    /\ Called
    /\ heat' = processHeatMaps(history, filter, now)
    /\ UNCHANGED <<app, zone, now, history, updatedAtStr, granularity, filter, startTs, endTs,
                   segments, indexRef, stats, legacy, chart>>

NextRepeated == Tick \/ CallProcessStats \/ CallProcessChartData \/ CallProcessHeatMaps

SpecRepeated == InitRepeated /\ [][NextRepeated]_vars

\* A call was made before.
CalledBefore == query.fn = "Date.now"

\* The results are those of the call before.
SameResults == stats' = stats /\ chart' = chart /\ heat' = heat

\* C19 (as claimed): two invocations with the same history (and the same
\* updatedAtStr, granularity, filter) return equal results, whenever the
\* two invocations are made.
C19_SameResultsWhenever ==
    [][CalledBefore => SameResults]_vars

\* The events later than 365 days before a reading of the clock.
LaterThanCutoff(nowTs) == SelectSeq(history, LAMBDA item : item.t > cutoffOf(nowTs))

\* The two readings of the clock have the same effect on the call: for
\* processStats they are equal; for processChartData the later of the
\* reading and the last event is the same; for processHeatMaps the same
\* events are later than 365 days before the reading.
SameEffect(before, after) ==
    IF granularity # Null
    THEN history = <<>>
            \/ Max(before, history[Len(history)].t) = Max(after, history[Len(history)].t)
    ELSE IF filter # Null
         THEN LaterThanCutoff(before) = LaterThanCutoff(after)
         ELSE history = <<>> \/ before = after

\* C19 (amended): the three functions are functions of their arguments and
\* of the reading of Date.now() at the call.  Two invocations with the same
\* arguments return equal results when the clock reads the same; so do two
\* of processChartData when max(now, last event) is the same, and two of
\* processHeatMaps when the same events are later than now - 365 days.
C19_SameResultsAtSameClock ==
    [][(CalledBefore /\ SameEffect(query.ts, now)) => SameResults]_vars

C19_Witness ==
    /\ query.fn = "Date.now"
    /\ query.result = 2
    /\ query.earlier # query.ts
    /\ SameEffect(query.earlier, query.ts)
    /\ heat # NoStats
    /\ history # <<>>
    /\ LaterThanCutoff(query.ts) = <<>>

---------------------------------------------------------------------------
(* Calls of getOffsetForTs with one shared cursor, on instants that do not *)
(* decrease.                                                               *)

\* getOffsetForTs(ts, segments, indexRef): the record of the call keeps the
\* cursor as it was before the call.
GetOffsetForTs ==
    /\ segments # <<>>
    /\ \E ts \in QueryInstants(zone) \cup {startTs, endTs} :
          /\ InRange(ts)
          /\ query.fn = "getOffsetForTs" => ts >= query.ts
          /\ query' = [ fn |-> "getOffsetForTs", ts |-> ts,
                        result |-> getOffsetForTs(ts, segments, indexRef),
                        cursor |-> indexRef ]
          /\ indexRef' = advanceIndex(ts, segments, indexRef)
    /\ UNCHANGED <<app, zone, now, history, updatedAtStr, granularity, filter, startTs, endTs,
                   segments, stats, legacy, chart, heat>>

NextCursor == BuildOffsetSegments \/ GetOffsetForTs

SpecCursor == InitSeg /\ [][NextCursor]_vars

\* C22: over non-decreasing instants inside the built range and one cursor
\* that starts at index 0, every getOffsetForTs(ts, segments, cursor)
\* returns the offset getOffsetAt(ts, segments) returns; the cursor never
\* decreases and never exceeds segments.length - 1 (the indices of the
\* model are those of the code plus 1).
C22_CursorLookupMatchesScan ==
    query.fn = "getOffsetForTs" =>
        /\ query.result = getOffsetAt(query.ts, segments)
        /\ query.cursor <= indexRef
        /\ 1 <= query.cursor
        /\ indexRef <= Len(segments)

C22_Witness ==
    /\ query.fn = "getOffsetForTs"
    /\ Len(segments) = 2
    /\ query.cursor = 1
    /\ indexRef = 2
    /\ query.result = segments[2].offset
    /\ query.result # segments[1].offset

\* m is the greatest of the values and of least.
IsFlooredMax(m, values, least) ==
    /\ m >= least
    /\ \A x \in values : m >= x
    /\ m = least \/ m \in values

\* The cells of a 7 x 24 matrix.
CellsOf(matrix) == { matrix[d][h] : d \in 0..6, h \in 0..23 }

\* C24: in every result of processHeatMaps hourlyMedian and hourlyMean are
\* 7 x 24 matrices, maxDaily is the greatest of 1 and the values of weekly,
\* maxHourlyMedian and maxHourlyMean the greatest of 1 and the cells of
\* their matrix; with no surviving event weekly is empty, every cell is 0
\* and the three maxima are 1.  Medians, means and their maxima are kept in
\* tenths.
C24_MaximaFlooredAtOne ==
    heat # NoStats =>
        /\ DOMAIN heat.hourlyMedian = 0..6
        /\ DOMAIN heat.hourlyMean = 0..6
        /\ \A d \in 0..6 :
              DOMAIN heat.hourlyMedian[d] = 0..23 /\ DOMAIN heat.hourlyMean[d] = 0..23
        /\ IsFlooredMax(heat.maxDaily, { heat.weekly[k] : k \in DOMAIN heat.weekly }, 1)
        /\ IsFlooredMax(heat.maxHourlyMedian, CellsOf(heat.hourlyMedian), 10)
        /\ IsFlooredMax(heat.maxHourlyMean, CellsOf(heat.hourlyMean), 10)
        /\ AfterCutoff = <<>> =>
              /\ DOMAIN heat.weekly = {}
              /\ CellsOf(heat.hourlyMedian) = {0}
              /\ CellsOf(heat.hourlyMean) = {0}
              /\ heat.maxDaily = 1
              /\ heat.maxHourlyMedian = 10
              /\ heat.maxHourlyMean = 10

C24_Witness ==
    /\ heat # NoStats
    /\ filter = "zeroEtv"
    /\ Len(AfterCutoff) = 2
    /\ heat.weekCount = 2
    /\ DOMAIN heat.weekly # {}
    /\ heat.maxDaily = 2
    /\ heat.maxHourlyMean = 10
    /\ heat.maxHourlyMedian = 10
    /\ CellsOf(heat.hourlyMean) # {0}


(***************************************************************************)
(* The mean of a cell of the heat map.                                     *)
(***************************************************************************)

\* The Monday-first weekday and the hour that the zone's clock shows at t.
LocalWeekday(t) == (getUTCDay(tz(t)) + 6) % 7
LocalHour(t) == getUTCHours(tz(t))

\* The total, under the filter, of the events falling in the cell (d, h).
RECURSIVE CellTotal(_, _, _)
CellTotal(items, d, h) ==
    IF items = <<>>
    THEN 0
    ELSE (IF LocalWeekday(Head(items).t) = d /\ LocalHour(Head(items).t) = h
          THEN heatTotal(Head(items), filter) ELSE 0)
             + CellTotal(Tail(items), d, h)

\* The iso-weeks from that of the earliest to that of the latest surviving
\* event, both included.
WeeksSpanned ==
    IsoWeekOf(AfterCutoff[Len(AfterCutoff)].t) - IsoWeekOf(AfterCutoff[1].t) + 1

\* n / d rounded to one decimal, in tenths, a half going up.
OneDecimal(n, d) == CHOOSE r \in 0..(10 * n + 1) : 2 * d * r <= 20 * n + d /\ 20 * n + d < 2 * d * (r + 1)

\* C25: for every weekday d and hour h, hourlyMean[d][h] is the sum of the
\* contributions of the surviving events of the cell (d, h) divided by
\* weekCount and rounded to one decimal, weekCount being the number of
\* iso-weeks from the earliest to the latest surviving event inclusive.
C25_MeanOverWeekCount ==
    Heated =>
        /\ heat.weekCount = WeeksSpanned
        /\ \A d \in Days, h \in Hours :
               heat.hourlyMean[d][h] = OneDecimal(CellTotal(AfterCutoff, d, h), WeeksSpanned)

\* The same for histories whose earliest surviving event is at a whole
\* second.
C25_WholeSeconds ==
    (Heated /\ AfterCutoff[1].t % 1000 = 0) =>
        /\ heat.weekCount = WeeksSpanned
        /\ \A d \in Days, h \in Hours :
               heat.hourlyMean[d][h] = OneDecimal(CellTotal(AfterCutoff, d, h), WeeksSpanned)


(***************************************************************************)
(* The cell, the week and the civil date of an event of the heat map.      *)
(***************************************************************************)

\* The civil date that the zone's clock shows at t, as the number of the day.
LocalDate(t) == formatDate(tz(t))

\* The total, under the filter, of the events of the civil date k.
RECURSIVE DateTotal(_, _)
DateTotal(items, k) ==
    IF items = <<>>
    THEN 0
    ELSE (IF LocalDate(Head(items).t) = k THEN heatTotal(Head(items), filter) ELSE 0)
             + DateTotal(Tail(items), k)

\* The total, under the filter, of the events of the cell (d, h) that fall
\* in the iso-week w.
RECURSIVE CellWeekTotal(_, _, _, _)
CellWeekTotal(items, d, h, w) ==
    IF items = <<>>
    THEN 0
    ELSE (IF /\ LocalWeekday(Head(items).t) = d
             /\ LocalHour(Head(items).t) = h
             /\ IsoWeekOf(Head(items).t) = w
          THEN heatTotal(Head(items), filter) ELSE 0)
             + CellWeekTotal(Tail(items), d, h, w)

\* Every surviving event is accumulated in the row of its Monday-first
\* local weekday, the column of its local hour, the sample of its iso-week
\* and the weekly entry of its local civil date.
AccumulatedByLocalDate ==
    /\ DOMAIN heat.weekly = { LocalDate(AfterCutoff[i].t) : i \in 1..Len(AfterCutoff) }
    /\ \A k \in DOMAIN heat.weekly : heat.weekly[k] = DateTotal(AfterCutoff, k)
    /\ \A d \in Days, h \in Hours :
          /\ heat.hourlySum[d][h] = CellTotal(AfterCutoff, d, h)
          /\ \A k \in 1..Len(heat.hourlyWeekSums[d][h]) :
                 heat.hourlyWeekSums[d][h][k] =
                     CellWeekTotal(AfterCutoff, d, h, IsoWeekOf(AfterCutoff[1].t) + k - 1)

\* C26: every surviving event of a sorted history is accumulated in the
\* matrix row of the Monday-first weekday of its local civil date (Monday 0
\* to Sunday 6), in the column of its local hour 0..23 and in the weekly
\* entry keyed by its local civil date, the iso-week keys starting on Monday.
C26_RowColumnAndDate == Heated => AccumulatedByLocalDate

\* The same for histories whose earliest surviving event is at a whole
\* second.
C26_WholeSeconds == (Heated /\ AfterCutoff[1].t % 1000 = 0) => AccumulatedByLocalDate


(***************************************************************************)
(* The partition of the events by processStats.                            *)
(***************************************************************************)

\* The total of the events before an instant.
TotalBefore(start) == sumBy(SelectSeq(history, LAMBDA h : h.t < start))

\* C27: for a non-empty sorted history with non-negative counts every event
\* is counted either in today or in exactly one dailyTotals entry, and
\* either in thisWeek or in exactly one weeklyTotals entry: the events from
\* todayStartTs on make today and the earlier ones the dailyTotals, the
\* events from weekStartTs on make thisWeek and the earlier ones the
\* weeklyTotals, so today + sum(dailyTotals) = thisWeek + sum(weeklyTotals)
\* = the total over all events, and today <= thisWeek.
C27_EventsPartitioned ==
    (stats # NoStats /\ history # <<>>) =>
        /\ stats.today = TotalFrom(stats.todayStartTs)
        /\ SumSeq(ObjectValues(stats.dailyTotals)) = TotalBefore(stats.todayStartTs)
        /\ stats.thisWeek = TotalFrom(stats.weekStartTs)
        /\ SumSeq(ObjectValues(stats.weeklyTotals)) = TotalBefore(stats.weekStartTs)
        /\ stats.today + SumSeq(ObjectValues(stats.dailyTotals)) = sumBy(history)
        /\ stats.thisWeek + SumSeq(ObjectValues(stats.weeklyTotals)) = sumBy(history)
        /\ stats.today <= stats.thisWeek

\* A history with one event of today and one of an earlier week, on the
\* two sides of a transition.
C27_Witness ==
    /\ stats # NoStats
    /\ Len(history) = 2
    /\ stats.today > 0
    /\ stats.today = stats.thisWeek
    /\ SumSeq(ObjectValues(stats.dailyTotals)) > 0
    /\ SumSeq(ObjectValues(stats.weeklyTotals)) = SumSeq(ObjectValues(stats.dailyTotals))
    /\ ZoneOffset(zone, history[1].t) # ZoneOffset(zone, history[2].t)


(***************************************************************************)
(* The conservation of the contributions in the heat map.                  *)
(***************************************************************************)

\* The sum of the cells of a matrix.
MatrixSum(matrix) == SumSeq([d \in 1..7 |-> SumSeq([h \in 1..24 |-> matrix[d - 1][h - 1]])])

\* C28: for a sorted history the contributions of the surviving events are
\* conserved: the weekly values, and the hourlySum cells, sum to the total
\* of the filtered contributions of the surviving events, and in every
\* cell there are weekCount per-week samples that sum to the cell's
\* hourlySum, so the check 0 <= weekIndex < weekCount drops no event.
C28_ContributionsConserved ==
    Heated =>
        /\ WeeklySum(heat.weekly) = HeatTotalOf(AfterCutoff)
        /\ MatrixSum(heat.hourlySum) = HeatTotalOf(AfterCutoff)
        /\ \A d \in Days, h \in Hours :
              /\ Len(heat.hourlyWeekSums[d][h]) = heat.weekCount
              /\ SumSeq(heat.hourlyWeekSums[d][h]) = heat.hourlySum[d][h]

\* Two surviving events in different weeks and different cells, under a
\* filter that counts both.
C28_Witness ==
    /\ Heated
    /\ Len(AfterCutoff) = 2
    /\ heat.weekCount >= 2
    /\ HeatTotalOf(AfterCutoff) > 0
    /\ Cardinality({ c \in Days \X Hours : heat.hourlySum[c[1]][c[2]] > 0 }) = 2
    /\ \E d \in Days, h \in Hours : heat.hourlyWeekSums[d][h][heat.weekCount] > 0


(***************************************************************************)
(* The App component: its state, its polling loop and what it renders.     *)
(***************************************************************************)

\* How many times loadData is called: once on mount, then by the interval.
MaxPolls == 4

\* The versions of stats.json that the server hands out.
DataVersions == 1..2

\* useState<StatsData | null>(null)
NoData == [version |-> 0]

\* What a request of stats.json can come to: no response at all, a
\* response that is not ok, an ok response whose body does not parse
\* (version 0), an ok response with a StatsData.
Responses ==
    { [arrived |-> FALSE, ok |-> FALSE, version |-> 0],
      [arrived |-> TRUE, ok |-> FALSE, version |-> 0] }
        \cup { [arrived |-> TRUE, ok |-> TRUE, version |-> v] : v \in {0} \cup DataVersions }

\* fetchStats(): one request; the promise is rejected when fetch rejects,
\* when the response is not ok and when its body does not parse.
fetchStats(response) ==
    IF ~response.arrived THEN [status |-> "rejected", value |-> NoData]
    ELSE IF ~response.ok THEN [status |-> "rejected", value |-> NoData]
    ELSE IF response.version = 0 THEN [status |-> "rejected", value |-> NoData]
    ELSE [status |-> "fulfilled", value |-> [version |-> response.version]]

\* The App right after construction: the first render, before the effect.
NewApp ==
    [ fn |-> "App", rawData |-> NoData, loading |-> TRUE, error |-> Null,
      interval |-> "none", inFlight |-> 0, calls |-> 0, requests |-> 0,
      lastSettled |-> Null ]

\* loadData up to its await: setLoading(true) and the request of fetchStats.
loadDataCalled(a) ==
    [a EXCEPT !.loading = TRUE, !.calls = @ + 1, !.requests = @ + 1, !.inFlight = @ + 1]

\* As loadDataFulfilled, but clearing the error.
loadDataFulfilled_clearsError(a, data) ==
    [a EXCEPT !.rawData = data, !.error = Null, !.loading = FALSE, !.inFlight = @ - 1,
              !.lastSettled = "fulfilled"]

\* loadData after its await when fetchStats is fulfilled: setRawData(data),
\* then the finally block.
loadDataFulfilled(a, data) ==
    [a EXCEPT !.rawData = data, !.loading = FALSE, !.inFlight = @ - 1,
              !.lastSettled = "fulfilled"]

\* loadData after its await when fetchStats is rejected: the catch block,
\* then the finally block.
loadDataRejected(a) ==
    [a EXCEPT !.error = "Failed to load stats. Please check your connection.",
              !.loading = FALSE, !.inFlight = @ - 1, !.lastSettled = "rejected"]

\* loadData after its await.  The component has been unmounted: React
\* drops the updates of its state.
loadDataDropped(a) == [a EXCEPT !.inFlight = @ - 1]

\* What App returns: the spinner, the error screen or the dashboard.
render(a) ==
    IF a.loading /\ a.rawData = NoData THEN "spinner"
    ELSE IF a.error # Null THEN "error"
    ELSE "dashboard"

InitApp ==
    /\ zone = "winter"
    /\ IdleEngine
    /\ IdleSegments
    /\ app = NewApp

\* The effect on mount: loadData(), then setInterval(loadData, 60000).
Mount ==
    /\ app.interval = "none"
    /\ app' = [loadDataCalled(app) EXCEPT !.interval = "set"]
    /\ UNCHANGED <<zone, now, history, updatedAtStr, granularity, filter, startTs, endTs,
                   segments, indexRef, query, stats, legacy, chart, heat>>

\* The interval fires: loadData(), whether or not earlier calls have settled.
IntervalFires ==
    /\ app.interval = "set"
    /\ app.calls < MaxPolls
    /\ app' = loadDataCalled(app)
    /\ UNCHANGED <<zone, now, history, updatedAtStr, granularity, filter, startTs, endTs,
                   segments, indexRef, query, stats, legacy, chart, heat>>

\* The promise of a pending fetchStats settles and loadData goes on.
FetchSettles ==
    /\ app.inFlight > 0
    /\ \E response \in Responses :
          app' = IF app.interval = "cleared"
                 THEN loadDataDropped(app)
                 ELSE IF fetchStats(response).status = "fulfilled"
                      THEN loadDataFulfilled(app, fetchStats(response).value)
                      ELSE loadDataRejected(app)
    /\ UNCHANGED <<zone, now, history, updatedAtStr, granularity, filter, startTs, endTs,
                   segments, indexRef, query, stats, legacy, chart, heat>>

\* The cleanup of the effect on unmount: clearInterval(interval).
Unmount ==
    /\ app.interval = "set"
    /\ app' = [app EXCEPT !.interval = "cleared"]
    /\ UNCHANGED <<zone, now, history, updatedAtStr, granularity, filter, startTs, endTs,
                   segments, indexRef, query, stats, legacy, chart, heat>>

NextApp == Mount \/ IntervalFires \/ FetchSettles \/ Unmount

SpecApp == InitApp /\ [][NextApp]_vars

\* The component is on the screen.
Mounted == app.interval # "cleared"

\* C29 (as claimed): once a fetch has failed, error stays non-null in every
\* later state, the error screen is rendered from then on, and a failed
\* fetchStats call is not retried: every call of loadData makes one request.
C29_ErrorScreenFromThenOn ==
    [][ /\ app.error # Null => app'.error # Null
        /\ (Mounted' /\ app'.error # Null) => render(app') = "error"
        /\ app'.requests = app'.calls ]_vars

\* C29 (amended): once a fetch has failed, error stays non-null in every
\* later state and the dashboard is never rendered again, whatever rawData
\* becomes: the error screen is rendered, except while a call of loadData
\* is pending with rawData still null, when the spinner may be; every call
\* of loadData makes one request, and a rejection makes none.
C29_ErrorSticky ==
    [][ /\ app.error # Null => app'.error # Null
        /\ (Mounted' /\ app'.error # Null) =>
               \/ render(app') = "error"
               \/ /\ render(app') = "spinner"
                  /\ app'.inFlight > 0
                  /\ app'.rawData = NoData
        /\ app'.requests = app'.calls
        /\ app'.inFlight < app.inFlight => app'.requests = app.requests ]_vars

\* A poll has succeeded after a failure: rawData is set, the error is still
\* there and the error screen is rendered.
C29_Witness ==
    /\ Mounted
    /\ app.error # Null
    /\ app.lastSettled = "fulfilled"
    /\ app.rawData # NoData
    /\ render(app) = "error"

\* A poll is pending after the first fetch has failed: the spinner is
\* rendered, not the error screen.
C29_SpinnerAfterError ==
    /\ Mounted
    /\ app.error # Null
    /\ app.rawData = NoData
    /\ app.loading
    /\ render(app) = "spinner"


(***************************************************************************)
(* Calls of getPstMidnightTimestamps.                                      *)
(***************************************************************************)

\* A number handed to getPstMidnightTimestamps: a finite one, NaN, Infinity.
Finite(n) == [finite |-> TRUE, value |-> n, name |-> "finite"]
NaN == [finite |-> FALSE, value |-> 0, name |-> "NaN"]
Infinity == [finite |-> FALSE, value |-> 0, name |-> "Infinity"]

\* The for loop of getPstMidnightTimestamps from key on.
RECURSIVE midnightsLoop(_, _, _, _, _, _)
midnightsLoop(key, endKey, segs, start, end, midnights) ==
    IF key <= endKey
    THEN LET localMidnight == key * DAY_MS
             utcMidnight   == getUtcForLocal(localMidnight, segs)
         IN  midnightsLoop(key + 1, endKey, segs, start, end,
                 IF utcMidnight >= start /\ utcMidnight <= end
                 THEN Append(midnights, utcMidnight)
                 ELSE midnights)
    ELSE midnights

\* getPstMidnightTimestamps from the segments on.
getPstMidnightTimestampsIn(start, end, segs) ==
    midnightsLoop((start + getOffsetAt(start, segs)) \div DAY_MS,
                  (end + getOffsetAt(end, segs)) \div DAY_MS,
                  segs, start, end, <<>>)

\* getPstMidnightTimestamps(startTs, endTs)
getPstMidnightTimestamps(a, b) ==
    IF ~a.finite \/ ~b.finite
    THEN <<>>
    ELSE getPstMidnightTimestampsIn(Min(a.value, b.value), Max(a.value, b.value),
             buildOffsetSegments(Min(a.value, b.value) - DAY_MS,
                                 Max(a.value, b.value) + DAY_MS))

\* Range starts and lengths around the local midnight of the transition
\* Sunday: ranges that start at a midnight, a millisecond or a second off
\* it, or in the middle of a day, and that cover no midnight, one, the two
\* on either side of the transition, or four; with and without a
\* sub-second part.
MidnightStarts(z) ==
    { SundayMidnight(z) + d : d \in { -DAY_MS, -(5 * HOUR_MS), -1000, -1, 0, 1, 1000,
                                      9 * HOUR_MS + 250, DAY_MS - HOUR_MS } }

MidnightLengths ==
    { 0, 1, 1000, 23 * HOUR_MS, DAY_MS, 25 * HOUR_MS, 2 * DAY_MS, 3 * DAY_MS + HOUR_MS }

InitMidnights ==
    /\ zone \in Zones
    /\ \E p \in MidnightStarts(zone), d \in MidnightLengths :
          \/ startTs = p /\ endTs = p + d
          \/ startTs = p + d /\ endTs = p
    /\ segments = <<>>
    /\ indexRef = 1
    /\ query = NoQuery
    /\ app = NoApp
    /\ IdleEngine

GetPstMidnightTimestamps ==
    /\ query = NoQuery
    /\ \E a \in {Finite(startTs), NaN, Infinity}, b \in {Finite(endTs), NaN, Infinity} :
          query' = [ fn |-> "getPstMidnightTimestamps", startTs |-> a, endTs |-> b,
                     result |-> getPstMidnightTimestamps(a, b) ]
    /\ UNCHANGED <<app, zone, now, history, updatedAtStr, granularity, filter, startTs, endTs,
                   segments, indexRef, stats, legacy, chart, heat>>

NextMidnights == GetPstMidnightTimestamps

SpecMidnights == InitMidnights /\ [][NextMidnights]_vars

\* The instants of [lo, hi] at which the zone's clock shows 00:00.
MidnightsWithin(lo, hi) ==
    { m \in { valueOfMidnight(k) : k \in ((lo \div DAY_MS) - 1)..((hi \div DAY_MS) + 1) } :
        lo <= m /\ m <= hi }

\* The call returned a strictly increasing list of exactly the local
\* midnights of [min, max], 23, 24 or 25 hours apart.
ExactlyTheMidnights ==
    LET result == query.result
        lo == Min(query.startTs.value, query.endTs.value)
        hi == Max(query.startTs.value, query.endTs.value)
    IN  /\ \A i \in 1..(Len(result) - 1) :
               result[i + 1] - result[i] \in {23 * HOUR_MS, 24 * HOUR_MS, 25 * HOUR_MS}
        /\ \A i \in 1..Len(result) : tz(result[i]) % DAY_MS = 0
        /\ { result[i] : i \in 1..Len(result) } = MidnightsWithin(lo, hi)

MidnightsAsked == query.fn = "getPstMidnightTimestamps"

\* C30: for finite startTs and endTs, in either order, getPstMidnightTimestamps
\* returns a strictly increasing list of exactly the instants of the local
\* midnights in [min, max]: each reads 00:00 local time, consecutive ones
\* are 23, 24 or 25 hours apart and none is missing; for a non-finite
\* argument it returns the empty list.
C30_LocalMidnightsOfRange ==
    MidnightsAsked =>
        IF query.startTs.finite /\ query.endTs.finite
        THEN ExactlyTheMidnights
        ELSE query.result = <<>>

\* The same for ranges whose lower end is at a whole second.
C30_WholeSeconds ==
    (MidnightsAsked /\ Min(query.startTs.value, query.endTs.value) % 1000 = 0) =>
        IF query.startTs.finite /\ query.endTs.finite
        THEN ExactlyTheMidnights
        ELSE query.result = <<>>


\* A whole-second range over the transition: at least three midnights, two
\* of them 23 or 25 hours apart.
C30_AcrossTransition ==
    /\ MidnightsAsked
    /\ Min(query.startTs.value, query.endTs.value) % 1000 = 0
    /\ Len(query.result) >= 3
    /\ \E i \in 1..(Len(query.result) - 1) :
          query.result[i + 1] - query.result[i] # DAY_MS

===========================================================================
